---- MODULE Spec2Model ----
(***************************************************************************)
(* Telemetry synchronisation and frame assembly of the F1 race replay:     *)
(* src/src/f1_data/processors.py and src/src/f1_data/cache.py.             *)
(*                                                                         *)
(* Numbers.  Times are integers in units of a quarter tick (DT = 4 units),  *)
(* so that a sample may fall between two ticks, on either side of DT / 2.  *)
(* Source values (distance, gear, brake, rainfall, ...) are integers.  A   *)
(* value produced by np.interp is kept exactly, multiplied by Scale, the   *)
(* least common multiple of every possible gap between two sample times.   *)
(***************************************************************************)
EXTENDS Integers, Sequences, FiniteSets, TLC

\* ---------------------------------------------------------------- bounds
\* Drivers of a session (session.drivers).
NumDrivers == 3
\* Laps of a session, summed over its drivers, where the laps vary.
MaxSessionLaps == 2
\* Rows of a weather table.
MaxWeatherRows == 2
\* Events of a track-status table.
MaxStatusEvents == 2
\* Latest global_t_max a timeline is built for on its own.
MaxBoundTime == 9
\* Samples of a fastest lap sampled at every tick.
MaxTickSamples == 5
\* Samples of a fastest lap sampled at uneven times.
MaxUnevenSamples == 3
\* Drivers of a qualifying session.
NumQualiDrivers == 2
\* AppConfig instances made in one run.
MaxInstances == 4
\* Rows of a DataFrame handed to validate_ml_data.
MaxDfRows == 2

VARIABLES
  session,          \* the loaded session: drivers with laps, weather, track status
  argv_refresh,     \* "--refresh-data" in sys.argv
  fs,               \* the cache directory and its files
  pc,               \* where get_race_telemetry stands
  results,          \* pool.map: per task, None while it runs, Some(value) once returned
  aggregate,        \* driver_data, global_t_min, global_t_max, max_lap_number
  result,           \* the result dict once assembled
  ret,              \* what the call gave its caller: a value or an exception
  arg,              \* the arguments of a function applied on its own
  out,              \* what that function gave
  history           \* of the cache calls: per path the data of the last save that
                    \* succeeded, and the paths whose last opened write failed;
                    \* in get_race_telemetry, how its save_cached_data ended

vars == <<session, argv_refresh, fs, pc, results, aggregate, result, ret, arg, out, history>>
\* What get_race_telemetry leaves alone before its save.
fnVars == <<arg, out, history>>
\* What a function applied on its own never touches.
raceVars == <<session, argv_refresh, fs, pc, results, aggregate, result, ret>>

\* ------------------------------------------------------------- constants
\* processors.py:21, DT = 1.0 / FPS, in time units (one unit = DT / 4).
DT == 4

\* ---------------------------------------------------------------- helpers
Max(a, b) == IF a >= b THEN a ELSE b
Min(a, b) == IF a <= b THEN a ELSE b

RECURSIVE Gcd(_, _)
Gcd(a, b) == IF b = 0 THEN a ELSE Gcd(b, a % b)

RECURSIVE LcmUpTo(_)
LcmUpTo(n) == IF n <= 1 THEN 1 ELSE LET l == LcmUpTo(n - 1) IN (l * n) \div Gcd(l, n)

\* Python's None, and a value that may be None.
None == <<>>
Some(v) == <<v>>
IsNone(o) == o = <<>>
Val(o) == o[1]

Range(f) == {f[i] : i \in DOMAIN f}

\* What a call gives its caller: a value, or an exception.
Returned(value) == Some([kind |-> "return", value |-> value])
Raised(exc) == Some([kind |-> "raise", exc |-> exc])

\* ------------------------------------------------------------ input family
\* What the session adapter hands over.  A lap shape is one lap's telemetry
\* relative to the lap's start: dur is the lap's duration and tel its samples
\* (dt after the lap's start, within-lap Distance starting at 0, nGear, Brake).
\* Compound is already the integer of get_tyre_compound_int.  raises says
\* that lap.get_telemetry() raises for the lap instead of returning a table.
Smp(dt, d, g, b) == [dt |-> dt, Distance |-> d, nGear |-> g, Brake |-> b]

ShapeEmpty == [dur |-> 4, Compound |-> 1, tel |-> <<>>, raises |-> FALSE]
ShapeBroken == [dur |-> 4, Compound |-> 1, tel |-> <<>>, raises |-> TRUE]
ShapeA == [dur |-> 8, Compound |-> 0,
           tel |-> <<Smp(0, 0, 1, 0), Smp(4, 10, 3, 0), Smp(8, 20, 5, 1)>>,
           raises |-> FALSE]
ShapeB == [dur |-> 8, Compound |-> 1,
           tel |-> <<Smp(0, 0, 1, 1), Smp(4, 5, 2, 0), Smp(8, 15, 4, 0)>>,
           raises |-> FALSE]
ShapeLate == [dur |-> 6, Compound |-> 2,
              tel |-> <<Smp(2, 0, 2, 0), Smp(6, 10, 6, 1)>>,
              raises |-> FALSE]

\* A stint that ends early: the last sample lies 4 units before the lap's end.
ShapeShort == [dur |-> 6, Compound |-> 1,
               tel |-> <<Smp(0, 0, 1, 0), Smp(2, 10, 2, 1)>>,
               raises |-> FALSE]

LapShapes == {ShapeEmpty, ShapeA, ShapeB, ShapeLate}

\* Longest lap of the input family, in time units.
MaxLapDur == CHOOSE d \in {s.dur : s \in LapShapes} : \A s \in LapShapes : s.dur <= d
\* No two neighbouring samples of a series are further apart than this:
\* between two laps with telemetry lie empty laps of 4 units each, and a
\* weather table spans 8 units.
MaxGap == 4 * MaxSessionLaps
\* Every gap between two sample times divides Scale.
Scale == LcmUpTo(MaxGap)

\* The laps of one driver: lap k has LapNumber k and starts where lap k - 1
\* ended, so the last sample of a lap and the first of the next may share a
\* SessionTime.
RECURSIVE LapStart(_, _)
LapStart(shapes, k) == IF k = 1 THEN 0 ELSE LapStart(shapes, k - 1) + shapes[k - 1].dur

LapsOf(shapes) ==
  [k \in 1..Len(shapes) |->
    [LapNumber |-> k,
     Compound |-> shapes[k].Compound,
     raises |-> shapes[k].raises,
     tel |-> [i \in 1..Len(shapes[k].tel) |->
               [SessionTime |-> LapStart(shapes, k) + shapes[k].tel[i].dt,
                Distance |-> shapes[k].tel[i].Distance,
                nGear |-> shapes[k].tel[i].nGear,
                Brake |-> shapes[k].tel[i].Brake]]]]

ShapeSeqsUpTo(n) == UNION {[1..k -> LapShapes] : k \in 0..n}

\* Every way to give k drivers lap shapes, at most budget laps in all.
RECURSIVE Assignments(_, _)
Assignments(k, budget) ==
  IF k = 0 THEN {<<>>}
  ELSE UNION {{<<s>> \o rest : rest \in Assignments(k - 1, budget - Len(s))} :
              s \in ShapeSeqsUpTo(budget)}

\* session.get_driver(num)["Abbreviation"]: distinct codes.
Abbreviations == <<"VER", "HAM", "LEC", "NOR", "ALO", "SAI">>

DriversOf(assignment) ==
  [i \in 1..Len(assignment) |->
    [driver_no |-> i, code |-> Abbreviations[i], laps |-> LapsOf(assignment[i])]]

\* As ArangeLen, rounding the number of steps down.
ArangeLenFloor(start, stop, step) ==
  IF stop <= start THEN 0 ELSE (stop - start) \div step

\* np.arange(start, stop, step) for whole numbers: start, start + step, ...,
\* every value strictly below stop.
ArangeLen(start, stop, step) ==
  IF stop <= start THEN 0 ELSE ((stop - start) + step - 1) \div step

Arange(start, stop, step) ==
  [i \in 1..ArangeLen(start, stop, step) |-> start + (i - 1) * step]

\* np.argsort followed by fancy indexing arr[order]: the samples in
\* non-decreasing time order.  numpy's default sort is an insertion sort on
\* short arrays, which keeps equal keys in their original order.
RECURSIVE InsertByT(_, _)
InsertByT(sorted, s) ==
  IF sorted = <<>> THEN <<s>>
  ELSE IF sorted[Len(sorted)].t <= s.t THEN Append(sorted, s)
  ELSE Append(InsertByT(SubSeq(sorted, 1, Len(sorted) - 1), s), sorted[Len(sorted)])

RECURSIVE SortByT(_)
SortByT(samples) ==
  IF samples = <<>> THEN <<>>
  ELSE InsertByT(SortByT(SubSeq(samples, 1, Len(samples) - 1)), samples[Len(samples)])

\* np.interp(x, xp, fp) for one x, times Scale.  xp is non-decreasing.  As in
\* numpy: fp[1] left of the data, fp[n] right of it; otherwise with j the
\* last index whose xp[j] <= x, fp[j] when x = xp[j] and the straight line
\* from (xp[j], fp[j]) to (xp[j+1], fp[j+1]) when not.
InterpIndex(x, xp) == CHOOSE j \in 1..Len(xp) :
  /\ xp[j] <= x
  /\ \A k \in (j + 1)..Len(xp) : xp[k] > x

\* As Interp, but 0 where x lies outside the sample times.
InterpZeroOutside(x, xp, fp) ==
  LET n == Len(xp) IN
  IF x > xp[n] \/ x < xp[1] THEN 0
  ELSE LET j == InterpIndex(x, xp) IN
       IF j = n \/ xp[j] = x THEN fp[j] * Scale
       ELSE fp[j] * Scale
            + (fp[j + 1] - fp[j]) * (x - xp[j]) * (Scale \div (xp[j + 1] - xp[j]))

Interp(x, xp, fp) ==
  LET n == Len(xp) IN
  IF x > xp[n] THEN fp[n] * Scale
  ELSE IF x < xp[1] THEN fp[1] * Scale
  ELSE LET j == InterpIndex(x, xp) IN
       IF j = n THEN fp[j] * Scale
       ELSE IF xp[j] = x THEN fp[j] * Scale
       ELSE fp[j] * Scale
            + (fp[j + 1] - fp[j]) * (x - xp[j]) * (Scale \div (xp[j + 1] - xp[j]))

\* int(v) of a float v held times Scale: truncation towards zero.
IntOf(v) == IF v >= 0 THEN v \div Scale ELSE -((-v) \div Scale)

\* Python's round(v) of a float v >= 0 held times Scale: nearest integer,
\* a tie going to the even neighbour.
RoundOf(v) ==
  LET q == v \div Scale
      r == v % Scale
  IN IF 2 * r < Scale THEN q
     ELSE IF 2 * r > Scale THEN q + 1
     ELSE IF q % 2 = 0 THEN q ELSE q + 1

\* ------------------------------------------- _process_single_driver
\* The race-distance offset after a lap: the loop body never assigns
\* total_dist_so_far, so it stays what line 61 made it.
NextTotalDist(total_dist_so_far, lap) == total_dist_so_far

\* The loop over the laps: a lap with empty telemetry is skipped; every other
\* lap appends its samples, race distance = total_dist_so_far + Distance, and
\* lap number and tyre code as constant-filled arrays.
RECURSIVE CollectLaps(_, _)
CollectLaps(laps, total_dist_so_far) ==
  IF laps = <<>> THEN <<>>
  ELSE LET lap == Head(laps)
           part == [i \in 1..Len(lap.tel) |->
                     [t |-> lap.tel[i].SessionTime,
                      dist |-> total_dist_so_far + lap.tel[i].Distance,
                      lap |-> lap.LapNumber,
                      tyre |-> lap.Compound,
                      gear |-> lap.tel[i].nGear,
                      brake |-> lap.tel[i].Brake]]
       IN part \o CollectLaps(Tail(laps), NextTotalDist(total_dist_so_far, lap))

SeqMax(f, n) == CHOOSE m \in {f[i] : i \in 1..n} : \A i \in 1..n : f[i] <= m
SeqMin(f, n) == CHOOSE m \in {f[i] : i \in 1..n} : \A i \in 1..n : f[i] >= m

\* Something in the try block raises: here lap.get_telemetry() of some lap.
ExtractRaises(driver) == \E k \in 1..Len(driver.laps) : driver.laps[k].raises

\* The value a task returns: None for a driver without laps, None when the
\* try block raises (lines 185-187, whatever was collected before is
\* dropped), None for a driver without any telemetry, otherwise the
\* time-sorted series with its bounds.
ProcessSingleDriver(driver) ==
  IF driver.laps = <<>> THEN None
  ELSE IF ExtractRaises(driver) THEN None
  ELSE LET collected == CollectLaps(driver.laps, 0)
           data == SortByT(collected)
           n == Len(data)
       IN IF collected = <<>> THEN None
          ELSE Some([code |-> driver.code,
                     data |-> data,
                     t_min |-> SeqMin([i \in 1..n |-> data[i].t], n),
                     t_max |-> SeqMax([i \in 1..n |-> data[i].t], n),
                     max_lap |-> SeqMax([k \in 1..Len(driver.laps) |->
                                          driver.laps[k].LapNumber], Len(driver.laps))])

\* ------------------------------------------- _format_track_statuses
\* As FormatTrackStatuses, without closing the segment before an event.
RECURSIVE FormatTrackStatusesOpen(_, _)
FormatTrackStatusesOpen(track_status, global_t_min) ==
  IF track_status = <<>> THEN <<>>
  ELSE LET n == Len(track_status)
           status == track_status[n]
       IN Append(FormatTrackStatusesOpen(SubSeq(track_status, 1, n - 1), global_t_min),
                 [status |-> status.Status,
                  start_time |-> status.Time - global_t_min,
                  end_time |-> None])

\* One segment per event, in event order; an event closes the segment
\* before it.
RECURSIVE FormatTrackStatuses(_, _)
FormatTrackStatuses(track_status, global_t_min) ==
  IF track_status = <<>> THEN <<>>
  ELSE LET n == Len(track_status)
           status == track_status[n]
           start_time == status.Time - global_t_min
           formatted_statuses == FormatTrackStatuses(SubSeq(track_status, 1, n - 1), global_t_min)
           m == Len(formatted_statuses)
           closed == IF m = 0 THEN formatted_statuses
                     ELSE [formatted_statuses EXCEPT ![m].end_time = Some(start_time)]
       IN Append(closed, [status |-> status.Status,
                          start_time |-> start_time,
                          end_time |-> None])

\* ------------------------------------------- _resample_weather_data
WeatherColumns == {"TrackTemp", "AirTemp", "Humidity", "WindSpeed", "WindDirection", "Rainfall"}

\* As ResampleWeatherData, but a table it cannot read gives a dict whose
\* columns are all None instead of None.
ResampleWeatherDataNeverNone(weather_df, timeline, global_t_min) ==
  Some([track_temp |-> None, air_temp |-> None, humidity |-> None,
        wind_speed |-> None, wind_direction |-> None, rainfall |-> None])

\* weather_df is a table: has_time says whether it holds the Time column,
\* columns which of the six value columns it holds, rows its samples.
\* The result is None for a table without rows and for a table whose Time
\* column is missing (the KeyError is caught); otherwise every column that the
\* table holds resampled onto the timeline, and None for a column it lacks.
ResampleWeatherData(weather_df, timeline, global_t_min) ==
  IF ~weather_df.has_time THEN None
  ELSE IF weather_df.rows = <<>> THEN None
  ELSE LET rows == SortByT([k \in 1..Len(weather_df.rows) |->
                             [t |-> weather_df.rows[k].Time - global_t_min,
                              row |-> weather_df.rows[k]]])
           weather_times == [k \in 1..Len(rows) |-> rows[k].t]
           _resample(name) ==
             IF name \notin weather_df.columns THEN None
             ELSE Some([i \in 1..Len(timeline) |->
                         Interp(timeline[i], weather_times,
                                [k \in 1..Len(rows) |-> rows[k].row[name]])])
       IN Some([track_temp |-> _resample("TrackTemp"),
                air_temp |-> _resample("AirTemp"),
                humidity |-> _resample("Humidity"),
                wind_speed |-> _resample("WindSpeed"),
                wind_direction |-> _resample("WindDirection"),
                rainfall |-> _resample("Rainfall")])

\* As RainState, with the threshold itself still dry.
RainStateStrict(rain_val) ==
  IF rain_val # 0 /\ 2 * rain_val > Scale THEN "RAINING" ELSE "DRY"

\* rain_state of a weather snapshot: "RAINING" if rain_val and rain_val >= 0.5.
RainState(rain_val) ==
  IF rain_val # 0 /\ 2 * rain_val >= Scale THEN "RAINING" ELSE "DRY"

\* As WeatherSnapshot, with 0 for a column the table lacks.
WeatherSnapshotFilled(wt, i) ==
  LET at(series) == IF IsNone(series) THEN Some(0) ELSE Some(Val(series)[i])
      rain_val == IF IsNone(wt.rainfall) THEN 0 ELSE Val(wt.rainfall)[i]
  IN [track_temp |-> at(wt.track_temp),
      air_temp |-> at(wt.air_temp),
      humidity |-> at(wt.humidity),
      wind_speed |-> at(wt.wind_speed),
      wind_direction |-> at(wt.wind_direction),
      rain_state |-> RainState(rain_val)]

\* The weather snapshot of tick i (the same lines in both frame loops).
WeatherSnapshot(wt, i) ==
  LET at(series) == IF IsNone(series) THEN None ELSE Some(Val(series)[i])
      rain_val == IF IsNone(wt.rainfall) THEN 0 ELSE Val(wt.rainfall)[i]
  IN [track_temp |-> at(wt.track_temp),
      air_temp |-> at(wt.air_temp),
      humidity |-> at(wt.humidity),
      wind_speed |-> at(wt.wind_speed),
      wind_direction |-> at(wt.wind_direction),
      rain_state |-> RainState(rain_val)]

\* ------------------------------------------------------------ cache.py
\* The file system under the cache directory: dir says whether the
\* directory exists, files maps a path to None (no such file) or to the
\* file's bytes.  A pickle is the protocol header, the dict's items and the
\* closing STOP opcode; a write that is cut short leaves no STOP.
Pickle(data) ==
  [proto |-> 5, items |-> {<<k, data[k]>> : k \in DOMAIN data}, stop |-> TRUE]

Truncated == [proto |-> 5, items |-> {}, stop |-> FALSE]

\* As Unpickle, taking bytes without STOP for the dict of what is there.
UnpickleLenient(bytes) ==
  Some([k \in {it[1] : it \in bytes.items} |->
         (CHOOSE it \in bytes.items : it[1] = k)[2]])

\* pickle.load: the dict of the items, or an exception (None here) for
\* bytes that do not end in STOP.
Unpickle(bytes) ==
  IF ~bytes.stop THEN None
  ELSE Some([k \in {it[1] : it \in bytes.items} |->
              (CHOOSE it \in bytes.items : it[1] = k)[2]])

\* As LoadCachedData, reading the file whatever refresh says.
LoadCachedDataIgnoringRefresh(files, cache_path, refresh, in_argv) ==
  IF IsNone(files.files[cache_path]) THEN None
  ELSE Unpickle(Val(files.files[cache_path]))

\* load_cached_data(cache_path, refresh): None when a refresh is asked for
\* (the argument or the command line), when the file is missing and when it
\* cannot be unpickled; the pickled data otherwise.
LoadCachedData(files, cache_path, refresh, in_argv) ==
  IF refresh \/ in_argv THEN None
  ELSE IF IsNone(files.files[cache_path]) THEN None
  ELSE Unpickle(Val(files.files[cache_path]))

\* save_cached_data(data, cache_path), by how far it gets.  "mkdir": making
\* the directory or opening the file fails, nothing is written.  "dump": the
\* file is opened for writing, which empties it, and pickle.dump fails.
\* "ok": the file holds the pickle.  Every failure is raised again.
SaveOutcomes == {"ok", "mkdir", "dump"}

\* As SaveCachedData, writing under one fixed name whatever the path.
SaveCachedDataOneName(files, data, cache_path, outcome) ==
  IF outcome = "mkdir" THEN files
  ELSE [dir |-> TRUE,
        files |-> [q \in DOMAIN files.files |->
                     IF outcome = "ok" THEN Some(Pickle(data)) ELSE Some(Truncated)]]

SaveCachedData(files, data, cache_path, outcome) ==
  IF outcome = "mkdir" THEN files
  ELSE [dir |-> TRUE,
        files |-> [files.files EXCEPT ![cache_path] =
                     IF outcome = "ok" THEN Some(Pickle(data)) ELSE Some(Truncated)]]

SaveRaises(outcome) == outcome # "ok"

\* As AfterSave, with the exception of save_cached_data left uncaught.
AfterSaveFatal(outcome, value) ==
  IF SaveRaises(outcome) THEN Raised("OSError") ELSE Returned(value)

\* As AfterSave, with the exception of a write that broke off left uncaught.
AfterSaveRaisesOnTear(outcome, value) ==
  IF outcome = "dump" THEN Raised("OSError") ELSE Returned(value)

\* What the caller of save_cached_data gives its own caller (race: lines
\* 511-518, qualifying: lines 896-903): the exception is caught and logged,
\* the value returned whatever the outcome.
AfterSave(outcome, value) == Returned(value)

\* As Truthy, with every loaded value counting as a miss.
TruthyNever(cached_data) == FALSE

\* `if cached_data:` -- None and an empty dict both count as a miss.
Truthy(cached_data) == ~IsNone(cached_data) /\ DOMAIN Val(cached_data) # {}

\* As TaskOutcome, without the except clause of lines 185-187.
TaskOutcomeUncaught(driver) ==
  IF driver.laps # <<>> /\ ExtractRaises(driver) THEN Raised("Exception")
  ELSE Returned(ProcessSingleDriver(driver))

\* How a call of _process_single_driver ends for its caller: every
\* exception is caught inside, so it always returns.
TaskOutcome(driver) == Returned(ProcessSingleDriver(driver))

\* ------------------------------------------------ get_race_telemetry
\* cache_path: the session's name and the session-type suffix.
RaceCachePath(sess) ==
  <<sess.name, IF sess.session_type = "S" THEN "sprint" ELSE "race">>

\* As Aggregated, but with the bounds starting at 0 instead of None, so that
\* a driver without data pulls them to 0.
RECURSIVE AggregatedFromZero(_)
AggregatedFromZero(rs) ==
  IF rs = <<>>
  THEN [driver_data |-> <<>>, global_t_min |-> None, global_t_max |-> None,
        max_lap_number |-> 0]
  ELSE LET n == Len(rs)
           acc == AggregatedFromZero(SubSeq(rs, 1, n - 1))
           res == rs[n]
           lo == IF IsNone(acc.global_t_min) THEN 0 ELSE Val(acc.global_t_min)
           hi == IF IsNone(acc.global_t_max) THEN 0 ELSE Val(acc.global_t_max)
       IN IF IsNone(res) THEN acc
          ELSE LET r == Val(res) IN
               [driver_data |-> Append(acc.driver_data, [code |-> r.code, data |-> r.data]),
                global_t_min |-> Some(Min(lo, r.t_min)),
                global_t_max |-> Some(Max(hi, r.t_max)),
                max_lap_number |-> Max(acc.max_lap_number, r.max_lap)]

\* As Aggregated, but every result overwrites the bounds and the lap
\* number with its own instead of widening them.
RECURSIVE AggregatedLastWins(_)
AggregatedLastWins(rs) ==
  IF rs = <<>>
  THEN [driver_data |-> <<>>, global_t_min |-> None, global_t_max |-> None,
        max_lap_number |-> 0]
  ELSE LET n == Len(rs)
           acc == AggregatedLastWins(SubSeq(rs, 1, n - 1))
           res == rs[n]
       IN IF IsNone(res) THEN acc
          ELSE LET r == Val(res) IN
               [driver_data |-> Append(acc.driver_data, [code |-> r.code, data |-> r.data]),
                global_t_min |-> Some(r.t_min),
                global_t_max |-> Some(r.t_max),
                max_lap_number |-> r.max_lap]

\* The loop over the results: a None is skipped; every other result adds its
\* driver to driver_data (in result order) and widens the bounds.
RECURSIVE Aggregated(_)
Aggregated(rs) ==
  IF rs = <<>>
  THEN [driver_data |-> <<>>, global_t_min |-> None, global_t_max |-> None,
        max_lap_number |-> 0]
  ELSE LET n == Len(rs)
           acc == Aggregated(SubSeq(rs, 1, n - 1))
           res == rs[n]
       IN IF IsNone(res) THEN acc
          ELSE LET r == Val(res) IN
               [driver_data |-> Append(acc.driver_data, [code |-> r.code, data |-> r.data]),
                global_t_min |-> IF IsNone(acc.global_t_min) THEN Some(r.t_min)
                                 ELSE Some(Min(Val(acc.global_t_min), r.t_min)),
                global_t_max |-> IF IsNone(acc.global_t_max) THEN Some(r.t_max)
                                 ELSE Some(Max(Val(acc.global_t_max), r.t_max)),
                max_lap_number |-> Max(acc.max_lap_number, r.max_lap)]

\* As NoValidData, never true.
NoValidDataNever(agg) == FALSE

\* Lines 337-338: the bounds are still None after the loop.
NoValidData(agg) == IsNone(agg.global_t_min) \/ IsNone(agg.global_t_max)

\* As RaceTimeline, with the tick at the full span included.
RaceTimelineInclusive(t_min, t_max) ==
  [i \in 1..((t_max - t_min) \div DT + 1) |-> (i - 1) * DT]

\* timeline = np.arange(global_t_min, global_t_max, DT) - global_t_min
RaceTimeline(t_min, t_max) ==
  LET ticks == Arange(t_min, t_max, DT) IN [i \in 1..Len(ticks) |-> ticks[i] - t_min]

\* get_driver_quali_telemetry's timeline:
\* np.arange(global_t_min, global_t_max + DT / 2, DT) - global_t_min
QualiTimeline(t_min, t_max) ==
  LET ticks == Arange(t_min, t_max + DT \div 2, DT) IN [i \in 1..Len(ticks) |-> ticks[i] - t_min]

\* One driver's series on the timeline: every channel through np.interp
\* against the driver's own shifted sample times.
ResampleDriver(data, t_min, timeline) ==
  LET sorted == SortByT([k \in 1..Len(data) |-> [data[k] EXCEPT !.t = data[k].t - t_min]])
      t_sorted == [k \in 1..Len(sorted) |-> sorted[k].t]
      res(name) == [i \in 1..Len(timeline) |->
                     Interp(timeline[i], t_sorted, [k \in 1..Len(sorted) |-> sorted[k][name]])]
  IN [t |-> timeline, dist |-> res("dist"), lap |-> res("lap"), tyre |-> res("tyre"),
      gear |-> res("gear"), brake |-> res("brake")]

\* snapshot.sort(key=dist, reverse=True): descending by dist, cars of equal
\* dist in the order they had.
\* As InsertByDist, but a car goes ahead of the cars of equal dist.
RECURSIVE InsertByDistUnstable(_, _)
InsertByDistUnstable(sorted, car) ==
  IF sorted = <<>> THEN <<car>>
  ELSE IF sorted[Len(sorted)].dist > car.dist THEN Append(sorted, car)
  ELSE Append(InsertByDistUnstable(SubSeq(sorted, 1, Len(sorted) - 1), car),
              sorted[Len(sorted)])

RECURSIVE InsertByDist(_, _)
InsertByDist(sorted, car) ==
  IF sorted = <<>> THEN <<car>>
  ELSE IF sorted[Len(sorted)].dist >= car.dist THEN Append(sorted, car)
  ELSE Append(InsertByDist(SubSeq(sorted, 1, Len(sorted) - 1), car), sorted[Len(sorted)])

RECURSIVE SortByDistDesc(_)
SortByDistDesc(snapshot) ==
  IF snapshot = <<>> THEN <<>>
  ELSE InsertByDist(SortByDistDesc(SubSeq(snapshot, 1, Len(snapshot) - 1)),
                    snapshot[Len(snapshot)])

\* The cars of tick i, in driver_codes_list order.
Snapshot(resampled, i) ==
  [k \in 1..Len(resampled) |->
    [code |-> resampled[k].code,
     dist |-> resampled[k].arrays.dist[i],
     lap |-> RoundOf(resampled[k].arrays.lap[i]),
     tyre |-> resampled[k].arrays.tyre[i],
     gear |-> IntOf(resampled[k].arrays.gear[i]),
     brake |-> resampled[k].arrays.brake[i]]]

\* As PositionOf, counting from 0.
PositionFromZero(idx) == idx - 1

\* position of the car at place idx of the sorted snapshot.
PositionOf(idx) == idx

\* The frame of tick i.
Frame(resampled, weather_resampled, timeline, i) ==
  LET snapshot == SortByDistDesc(Snapshot(resampled, i))
      leader == snapshot[1]
      frame_data == [code \in {snapshot[k].code : k \in 1..Len(snapshot)} |->
                      LET idx == CHOOSE k \in 1..Len(snapshot) : snapshot[k].code = code
                          car == snapshot[idx]
                      IN [dist |-> car.dist, lap |-> car.lap, tyre |-> car.tyre,
                          position |-> PositionOf(idx), gear |-> car.gear,
                          brake |-> car.brake]]
      payload == [t |-> timeline[i], lap |-> leader.lap, drivers |-> frame_data]
  IN IF IsNone(weather_resampled) THEN payload
     ELSE [t |-> payload.t, lap |-> payload.lap, drivers |-> payload.drivers,
           weather |-> WeatherSnapshot(Val(weather_resampled), i)]

\* Everything from the timeline to the result dict.
RaceResult(sess, agg) ==
  LET t_min == Val(agg.global_t_min)
      timeline == RaceTimeline(t_min, Val(agg.global_t_max))
      resampled == [k \in 1..Len(agg.driver_data) |->
                     [code |-> agg.driver_data[k].code,
                      arrays |-> ResampleDriver(agg.driver_data[k].data, t_min, timeline)]]
      weather_resampled ==
        IF IsNone(sess.weather_data) THEN None
        ELSE IF Val(sess.weather_data).rows = <<>> THEN None
        ELSE ResampleWeatherData(Val(sess.weather_data), timeline, t_min)
  IN [frames |-> [i \in 1..Len(timeline) |-> Frame(resampled, weather_resampled, timeline, i)],
      driver_colors |-> sess.driver_colors,
      track_statuses |-> FormatTrackStatuses(sess.track_status, t_min),
      total_laps |-> agg.max_lap_number]

\* ------------------------------------------- get_driver_quali_telemetry
\* np.round(v, 1) of a float v >= 0 held times Scale: the nearest tenth, a
\* tie going to the even tenth.
RoundTenth(v) ==
  LET unit == Scale \div 10
      q == v \div unit
      r == v % unit
  IN IF 2 * r < unit THEN q * unit
     ELSE IF 2 * r > unit THEN (q + 1) * unit
     ELSE IF q % 2 = 0 THEN q * unit ELSE (q + 1) * unit

\* np.unique(t_sorted, return_index=True) and the indexing by idx_map: of
\* the samples that share a time the first one stays.
RECURSIVE UniqueByT(_)
UniqueByT(sorted) ==
  IF Len(sorted) <= 1 THEN sorted
  ELSE LET n == Len(sorted)
           front == UniqueByT(SubSeq(sorted, 1, n - 1))
       IN IF sorted[n].t = sorted[n - 1].t THEN front ELSE Append(front, sorted[n])

\* np.searchsorted(t_sorted_unique, x, side="right") - 1, clipped to the
\* array: the last sample at or before x, the first sample if there is none.
StepIndex(x, xp) ==
  LET at_or_before == Cardinality({k \in 1..Len(xp) : xp[k] <= x})
  IN Max(1, Min(at_or_before, Len(xp)))

\* As DrsActive, with the threshold itself inactive.
DrsActiveStrict(drs) == drs > 10 * Scale

\* The comparison of the zone scan: drs >= 10, drs a resampled value.
DrsActive(drs) == drs >= 10 * Scale

\* As DrsZones, but a downward crossing that finds no open zone adds a
\* zone from the first tick to the crossing.
RECURSIVE DrsZonesFromStart(_, _, _)
DrsZonesFromStart(drs, dist, n) ==
  IF n <= 1 THEN <<>>
  ELSE LET lap_drs_zones == DrsZonesFromStart(drs, dist, n - 1)
           m == Len(lap_drs_zones)
           drs_prev == drs[n - 1]
           drs_curr == drs[n]
       IN IF DrsActive(drs_curr) /\ ~DrsActive(drs_prev)
          THEN Append(lap_drs_zones, [zone_start |-> dist[n], zone_end |-> None])
          ELSE IF ~DrsActive(drs_curr) /\ DrsActive(drs_prev)
          THEN IF m > 0 /\ IsNone(lap_drs_zones[m].zone_end)
               THEN [lap_drs_zones EXCEPT ![m].zone_end = Some(dist[n])]
               ELSE Append(lap_drs_zones, [zone_start |-> dist[1], zone_end |-> Some(dist[n])])
          ELSE lap_drs_zones

\* The zone scan of the frame loop over ticks 1..n (lines 736-752): an
\* upward crossing appends an open zone, a downward crossing closes the last
\* zone if it is open.
RECURSIVE DrsZones(_, _, _)
DrsZones(drs, dist, n) ==
  IF n <= 1 THEN <<>>
  ELSE LET lap_drs_zones == DrsZones(drs, dist, n - 1)
           m == Len(lap_drs_zones)
           drs_prev == drs[n - 1]
           drs_curr == drs[n]
       IN IF DrsActive(drs_curr) /\ ~DrsActive(drs_prev)
          THEN Append(lap_drs_zones, [zone_start |-> dist[n], zone_end |-> None])
          ELSE IF ~DrsActive(drs_curr) /\ DrsActive(drs_prev)
          THEN IF m > 0 /\ IsNone(lap_drs_zones[m].zone_end)
               THEN [lap_drs_zones EXCEPT ![m].zone_end = Some(dist[n])]
               ELSE lap_drs_zones
          ELSE lap_drs_zones

\* parse_time_string(str(LapTime)), rounded to milliseconds: the lap time in
\* seconds, here in time units.
LapTimeSeconds(lap_time) == lap_time

EmptyQuali == [frames |-> <<>>, track_statuses |-> <<>>]

\* The whole function.  q is what the session holds for the driver and the
\* segment: segment (the name asked for), has_segment (the session has that
\* segment), laps ("none": no lap of the driver, "unset": no fastest lap,
\* "ok"), telemetry and LapTime of the fastest lap, weather_data and
\* track_status of the session.
GetDriverQualiTelemetry(q) ==
  IF q.segment \notin {"Q1", "Q2", "Q3"} THEN Raised("ValueError")
  ELSE IF ~q.has_segment THEN Raised("ValueError")
  ELSE IF q.laps = "none" THEN Raised("ValueError")
  ELSE IF q.laps = "unset" THEN Raised("ValueError")
  ELSE IF q.telemetry = <<>> THEN Returned(EmptyQuali)
  ELSE
    LET tel == q.telemetry
        nt == Len(tel)
        global_t_min == SeqMin([k \in 1..nt |-> tel[k].Time], nt)
        global_t_max == SeqMax([k \in 1..nt |-> tel[k].Time], nt)
        timeline == QualiTimeline(global_t_min, global_t_max)
        sorted == UniqueByT(SortByT([k \in 1..nt |->
                    [t |-> tel[k].Time - global_t_min, s |-> tel[k]]]))
        t_sorted_unique == [k \in 1..Len(sorted) |-> sorted[k].t]
        interp(name) == [i \in 1..Len(timeline) |->
                          Interp(timeline[i], t_sorted_unique,
                                 [k \in 1..Len(sorted) |-> sorted[k].s[name]])]
        dist_resampled == interp("Distance")
        speed_resampled == [i \in 1..Len(timeline) |-> RoundTenth(interp("Speed")[i])]
        brake_resampled == [i \in 1..Len(timeline) |-> RoundTenth(interp("Brake")[i]) * 100]
        drs_resampled == interp("DRS")
        gear_resampled == [i \in 1..Len(timeline) |->
                            sorted[StepIndex(timeline[i], t_sorted_unique)].s.nGear]
        weather_resampled ==
          IF IsNone(q.weather_data) THEN None
          ELSE IF Val(q.weather_data).rows = <<>> THEN None
          ELSE ResampleWeatherData(Val(q.weather_data), timeline, global_t_min)
        payload(i) == [t |-> timeline[i],
                       telemetry |-> [dist |-> dist_resampled[i],
                                      speed |-> speed_resampled[i],
                                      gear |-> gear_resampled[i],
                                      brake |-> brake_resampled[i],
                                      drs |-> IntOf(drs_resampled[i])]]
        frame(i) == IF IsNone(weather_resampled) THEN payload(i)
                    ELSE [t |-> payload(i).t, telemetry |-> payload(i).telemetry,
                          weather |-> WeatherSnapshot(Val(weather_resampled), i)]
        num_frames == Len(timeline)
        frames == [i \in 1..num_frames |->
                    IF i = num_frames THEN [frame(i) EXCEPT !.t = LapTimeSeconds(q.LapTime)]
                    ELSE frame(i)]
    IN Returned([frames |-> frames,
                 track_statuses |-> FormatTrackStatuses(q.track_status, global_t_min),
                 drs_zones |-> DrsZones(drs_resampled, dist_resampled, num_frames),
                 max_speed |-> SeqMax([k \in 1..nt |-> tel[k].Speed], nt),
                 min_speed |-> SeqMin([k \in 1..nt |-> tel[k].Speed], nt)])

\* ------------------------------------------------------------ the inputs
EventNames == {"Monza"}
CachePaths == EventNames \X {"race", "sprint", "quali", "sprintquali"}

NoFiles == [dir |-> FALSE, files |-> [p \in CachePaths |-> None]]

DriverColors(drivers) == [c \in {drivers[i].code : i \in 1..Len(drivers)} |-> <<255, 0, 0>>]

SessionOf(assignment, weather_data, track_status, session_type) ==
  [name |-> "Monza",
   session_type |-> session_type,
   drivers |-> DriversOf(assignment),
   weather_data |-> weather_data,
   track_status |-> track_status,
   driver_colors |-> DriverColors(DriversOf(assignment))]

\* Two-driver sessions for the inputs that vary something else than the
\* telemetry: one driver runs or none does.
FewAssignments == {<<<<ShapeA>>, <<>>>>,
                   <<<<ShapeLate>>, <<ShapeEmpty>>>>,
                   <<<<ShapeEmpty>>, <<>>>>}

\* Weather tables: rows in any order, rainfall 0 or 1 (a boolean column), the
\* other columns a number that depends on the row's time.
WeatherRow(time, rain) ==
  [Time |-> time, Rainfall |-> rain, TrackTemp |-> 30 + time, AirTemp |-> 20 + time,
   Humidity |-> 50, WindSpeed |-> time, WindDirection |-> 90 * time]
WeatherRows == {WeatherRow(time, rain) : time \in {0, 3, 8}, rain \in {0, 1}}
WeatherTables ==
  {[has_time |-> h, columns |-> c, rows |-> r] :
     h \in BOOLEAN,
     c \in {WeatherColumns, WeatherColumns \ {"Rainfall"}, {"Rainfall"}, {"TrackTemp"}},
     r \in UNION {[1..n -> WeatherRows] : n \in 0..MaxWeatherRows}}

\* Track-status tables: events in time order.
StatusEvents == {[Time |-> time, Status |-> st] : time \in {0, 3, 5}, st \in {"1", "4"}}
StatusTables ==
  {ts \in UNION {[1..n -> StatusEvents] : n \in 0..MaxStatusEvents} :
     \A i \in 1..(Len(ts) - 1) : ts[i].Time <= ts[i + 1].Time}

\* What the cache file may hold before the call.
OldArtifact == [frames |-> <<>>, driver_colors |-> <<>>, track_statuses |-> <<>>,
                total_laps |-> 7]
EmptyDict == [k \in {} |-> 0]
OldFiles == {None, Some(Truncated), Some(Pickle(EmptyDict)), Some(Pickle(OldArtifact))}

World(sess, refresh, files) == [session |-> sess, argv_refresh |-> refresh, fs |-> files]

\* Telemetry varies: every assignment of lap shapes to the drivers.
WorldsTelemetry ==
  {World(SessionOf(a, None, <<>>, "R"), FALSE, NoFiles) :
     a \in Assignments(NumDrivers, MaxSessionLaps)}
\* The whole grid runs: every driver has one lap with telemetry.
WorldsGrid ==
  {World(SessionOf(a, None, <<>>, "R"), FALSE, NoFiles) :
     a \in [1..NumDrivers -> {<<ShapeA>>, <<ShapeB>>, <<ShapeLate>>}]}
\* Extraction fails for some drivers.
WorldsFailure ==
  {World(SessionOf(a, None, <<>>, "R"), FALSE, NoFiles) :
     a \in [1..NumDrivers -> {<<ShapeA>>, <<ShapeBroken>>, <<ShapeB, ShapeBroken>>}]}
\* A session without drivers.
WorldsNoDrivers == {World(SessionOf(<<>>, None, <<>>, "R"), FALSE, NoFiles)}
\* Weather varies.
WorldsWeather ==
  {World(SessionOf(a, Some(w), <<>>, "R"), FALSE, NoFiles) :
     a \in FewAssignments, w \in WeatherTables}
\* Track status varies.
WorldsStatus ==
  {World(SessionOf(a, None, ts, "R"), FALSE, NoFiles) :
     a \in FewAssignments, ts \in StatusTables}
\* The cache and the refresh flag vary.
WorldsCache ==
  {World(SessionOf(a, None, <<>>, st), refresh,
         [dir |-> ~IsNone(f),
          files |-> [p \in CachePaths |-> IF p[2] \in {"race", "sprint"} THEN f ELSE None]]) :
     a \in FewAssignments, st \in {"R", "S"}, refresh \in BOOLEAN, f \in OldFiles}

\* A tyre change: a driver's lap on one compound ends before a tick and its
\* next lap, on another compound, has its first sample after that tick.
\* Drivers that start late or stop early beside drivers that run on.
WorldsStints ==
  {World(SessionOf(a, None, <<>>, "R"), FALSE, NoFiles) :
     a \in [1..NumDrivers -> {<<>>, <<ShapeA>>, <<ShapeShort>>, <<ShapeLate>>,
                              <<ShapeShort, ShapeLate>>}]}

Worlds == WorldsTelemetry \cup WorldsGrid \cup WorldsFailure \cup WorldsNoDrivers \cup WorldsWeather
          \cup WorldsStatus \cup WorldsCache \cup WorldsStints

\* ------------------------------------------------------------ the actions

Init ==
  /\ \E w \in Worlds :
       /\ session = w.session
       /\ argv_refresh = w.argv_refresh
       /\ fs = w.fs
  /\ pc = "start"
  /\ results = <<>>
  /\ aggregate = None
  /\ result = None
  /\ ret = None
  /\ arg = None
  /\ out = None
  /\ history = None

\* Lines 290-300: the cache is tried first; a hit is returned as it is.
LoadCache ==
  /\ pc = "start"
  /\ LET cached_data == LoadCachedData(fs, RaceCachePath(session), argv_refresh, argv_refresh)
     IN IF Truthy(cached_data)
        THEN /\ ret' = Returned(Val(cached_data))
             /\ pc' = "done"
        ELSE /\ ret' = ret
             /\ pc' = "dispatch"
  /\ UNCHANGED <<session, argv_refresh, fs, results, aggregate, result, fnVars>>

\* Lines 310-317: the pool is made and pool.map hands every driver to a task.
Dispatch ==
  /\ pc = "dispatch"
  /\ Len(session.drivers) > 0
  /\ results' = [i \in 1..Len(session.drivers) |-> None]
  /\ pc' = "pool"
  /\ UNCHANGED <<session, argv_refresh, fs, aggregate, result, ret, fnVars>>

\* Lines 318-320: the pool itself fails; the exception is raised again.
DispatchFails ==
  /\ pc = "dispatch"
  /\ ret' = Raised("DispatchError")
  /\ pc' = "done"
  /\ UNCHANGED <<session, argv_refresh, fs, results, aggregate, result, fnVars>>

\* Lines 313-320 for a session without drivers: Pool(processes=0) raises a
\* ValueError, which is raised again.
DispatchNoDrivers ==
  /\ pc = "dispatch"
  /\ Len(session.drivers) = 0
  /\ ret' = Raised("ValueError")
  /\ pc' = "done"
  /\ UNCHANGED <<session, argv_refresh, fs, results, aggregate, result, fnVars>>

\* One task of the pool runs _process_single_driver to its end.  pool.map
\* hands a task's value back, and raises in the caller what a task raised
\* (lines 318-320 raise it again).
RunTask(i) ==
  /\ pc = "pool"
  /\ IsNone(results[i])
  /\ LET outcome == Val(TaskOutcome(session.drivers[i]))
     IN IF outcome.kind = "raise"
        THEN /\ ret' = Raised(outcome.exc)
             /\ pc' = "done"
             /\ results' = results
        ELSE /\ results' = [results EXCEPT ![i] = Some(outcome.value)]
             /\ UNCHANGED <<pc, ret>>
  /\ UNCHANGED <<session, argv_refresh, fs, aggregate, result, fnVars>>

\* As AllReturned, waiting for the first task only.
FirstReturned == results # <<>> /\ ~IsNone(results[1])

\* pool.map returns once every task has returned.
AllReturned == \A i \in 1..Len(results) : ~IsNone(results[i])

\* The list pool.map returns: the values of the tasks, in driver order.
PoolMapResults ==
  LET returned == SelectSeq(results, LAMBDA r : ~IsNone(r))
  IN [i \in 1..Len(returned) |-> Val(returned[i])]

\* Lines 322-341: pool.map has returned every result; they are reduced, and
\* without any valid driver the call ends in a ValueError.
Aggregate ==
  /\ pc = "pool"
  /\ AllReturned
  /\ LET agg == Aggregated(PoolMapResults)
     IN /\ aggregate' = Some(agg)
        /\ IF NoValidData(agg)
           THEN /\ ret' = Raised("ValueError")
                /\ pc' = "done"
           ELSE /\ ret' = ret
                /\ pc' = "frames"
  /\ UNCHANGED <<session, argv_refresh, fs, results, result, fnVars>>

\* Lines 343-509: timeline, resampling, track statuses, weather, frames.
BuildFrames ==
  /\ pc = "frames"
  /\ result' = Some(RaceResult(session, Val(aggregate)))
  /\ pc' = "save"
  /\ UNCHANGED <<session, argv_refresh, fs, results, aggregate, ret, fnVars>>

\* Lines 511-518: the result is saved; a failure to save is logged and the
\* result returned all the same.
SaveCache ==
  /\ pc = "save"
  /\ \E outcome \in SaveOutcomes :
       /\ fs' = SaveCachedData(fs, Val(result), RaceCachePath(session), outcome)
       /\ history' = Some([save_cached_data |-> outcome])
       /\ ret' = AfterSave(outcome, Val(result))
  /\ pc' = "done"
  /\ UNCHANGED <<session, argv_refresh, results, aggregate, result, arg, out>>

Next ==
  \/ LoadCache
  \/ Dispatch
  \/ DispatchFails
  \/ DispatchNoDrivers
  \/ \E i \in 1..Len(results) : RunTask(i)
  \/ Aggregate
  \/ BuildFrames
  \/ SaveCache

Spec == Init /\ [][Next]_vars

\* ------------------------------------------- the timelines on their own
RaceIdle ==
  /\ session = None
  /\ argv_refresh = FALSE
  /\ fs = NoFiles
  /\ pc = "idle"
  /\ results = <<>>
  /\ aggregate = None
  /\ result = None
  /\ ret = None

InitTimeline ==
  /\ RaceIdle
  /\ arg \in {Some([global_t_min |-> a, global_t_max |-> b]) :
               <<a, b>> \in {x \in (0..MaxBoundTime) \X (0..MaxBoundTime) : x[1] <= x[2]}}
  /\ out = None
  /\ history = None

\* processors.py:344, the timeline of get_race_telemetry.
BuildRaceTimeline ==
  /\ IsNone(out)
  /\ out' = Some([of |-> "get_race_telemetry",
                  timeline |-> RaceTimeline(Val(arg).global_t_min, Val(arg).global_t_max)])
  /\ UNCHANGED <<arg, history, raceVars>>

\* processors.py:637, the timeline of get_driver_quali_telemetry.
BuildQualiTimeline ==
  /\ IsNone(out)
  /\ out' = Some([of |-> "get_driver_quali_telemetry",
                  timeline |-> QualiTimeline(Val(arg).global_t_min, Val(arg).global_t_max)])
  /\ UNCHANGED <<arg, history, raceVars>>

NextTimeline == BuildRaceTimeline \/ BuildQualiTimeline

SpecTimeline == InitTimeline /\ [][NextTimeline]_vars

\* ------------------------------------------- the qualifying on its own
\* A telemetry sample of a fastest lap.  Time and Distance are given; the
\* other channels depend on the sample's place k in the table.
QualiSample(time, k, drs) ==
  [Time |-> time, Distance |-> k - 1, DRS |-> drs,
   Speed |-> 100 + 10 * k, nGear |-> 1 + (k % 8), Brake |-> k % 2]

DrsCodes == {8, 10, 12}
UnevenGaps == {0, 1, 2, 6}

\* Tables sampled at every tick from time 0 on.
TickTelemetry ==
  {[k \in 1..n |-> QualiSample((k - 1) * DT, k, codes[k])] :
     <<n, codes>> \in UNION {{n} \X [1..n -> DrsCodes] : n \in 1..MaxTickSamples}}

\* Tables sampled at uneven times, two samples at one time among them.
RECURSIVE TimeAt(_, _, _)
TimeAt(first, gaps, k) == IF k = 1 THEN first ELSE TimeAt(first, gaps, k - 1) + gaps[k - 1]
UnevenTelemetry ==
  {[k \in 1..n |-> QualiSample(TimeAt(first, gaps, k), k, codes[k])] :
     <<n, first, gaps, codes>> \in
       UNION {{n} \X {0, 1} \X [1..(n - 1) -> UnevenGaps] \X [1..n -> {8, 12}] :
              n \in 1..MaxUnevenSamples}}

\* DRS codes [8, 8, 10, 10, 8] at the ticks whose distances are [0, 1, 2, 3, 4].
ScenarioCodes == <<8, 8, 10, 10, 8>>
ScenarioTelemetry == [k \in 1..Len(ScenarioCodes) |-> QualiSample((k - 1) * DT, k, ScenarioCodes[k])]

\* LapTime is a column of the session's timing data, the telemetry's Time
\* comes from the car data: the lap time of the scenario's lap, whose
\* telemetry spans 16 units, as the timing data may hold it.
LapTimes == {11, 12, 13, 15, 16, 17}

QualiOf(segment, has_segment, laps, telemetry, weather_data, track_status) ==
  [segment |-> segment, has_segment |-> has_segment, laps |-> laps,
   telemetry |-> telemetry,
   LapTime |-> IF telemetry = <<>> THEN 0 ELSE telemetry[Len(telemetry)].Time + 1,
   weather_data |-> weather_data, track_status |-> track_status]

QualiInputs ==
  {QualiOf("Q1", TRUE, "ok", tel, None, <<>>) : tel \in TickTelemetry \cup UnevenTelemetry}
  \cup {QualiOf(seg, has, laps, tel, None, <<>>) :
          seg \in {"Q1", "Q2", "Q3", "Q4"}, has \in BOOLEAN,
          laps \in {"none", "unset", "ok"}, tel \in {<<>>, ScenarioTelemetry}}
  \cup {QualiOf("Q2", TRUE, "ok", ScenarioTelemetry, Some(w), <<>>) : w \in WeatherTables}
  \cup {QualiOf("Q3", TRUE, "ok", ScenarioTelemetry, None, ts) : ts \in StatusTables}
  \cup {[QualiOf("Q1", TRUE, "ok", ScenarioTelemetry, None, <<>>) EXCEPT !.LapTime = lap_time] :
          lap_time \in LapTimes}

InitQuali ==
  /\ RaceIdle
  /\ arg \in {Some(q) : q \in QualiInputs}
  /\ out = None
  /\ history = None

\* One call of get_driver_quali_telemetry.
CallGetDriverQualiTelemetry ==
  /\ IsNone(out)
  /\ out' = GetDriverQualiTelemetry(Val(arg))
  /\ UNCHANGED <<arg, history, raceVars>>

NextQuali == CallGetDriverQualiTelemetry

SpecQuali == InitQuali /\ [][NextQuali]_vars

\* ------------------------------------------------- get_quali_telemetry
\* A qualifying session: has_segment says which of Q1, Q2, Q3 were run, a
\* driver holds per segment its laps ("none", "unset", "ok"), and the
\* telemetry and LapTime of its fastest lap; a row of session.results holds
\* Abbreviation, Position (None for NaN) and the session's Q1 time.
SegmentNames == <<"Q1", "Q2", "Q3">>

QualiCachePath(sess) ==
  <<sess.name, IF sess.session_type = "SQ" THEN "sprintquali" ELSE "quali">>

\* The arguments' view of get_driver_quali_telemetry(session, driver_code,
\* segment).
QualiCall(sess, driver, segment) ==
  [segment |-> segment,
   has_segment |-> sess.has_segment[segment],
   laps |-> driver.segments[segment].laps,
   telemetry |-> driver.segments[segment].telemetry,
   LapTime |-> driver.segments[segment].LapTime,
   weather_data |-> sess.weather_data,
   track_status |-> sess.track_status]

\* segment_telemetry["max_speed"] and ["min_speed"] (lines 820-822): None
\* stands for the KeyError of a result without these keys.
SegmentSpeeds(segment_telemetry) ==
  IF "max_speed" \in DOMAIN segment_telemetry
  THEN Some([max_speed |-> segment_telemetry.max_speed,
             min_speed |-> segment_telemetry.min_speed])
  ELSE None

\* min_speed after one more value (lines 821-822 and 885-886).
NextMinSpeed(min_speed, value) ==
  IF value < min_speed \/ min_speed = 0 THEN value ELSE min_speed

\* The loop of _process_quali_driver over the first k segments, calls[k]
\* being how get_driver_quali_telemetry ends for the k-th.  raised is None,
\* or the exception that left the loop: a ValueError of
\* get_driver_quali_telemetry is caught and gives the segment the empty
\* result; the KeyError of reading the speeds is not.
RECURSIVE QualiSegments(_, _)
QualiSegments(calls, k) ==
  IF k = 0
  THEN [raised |-> None, driver_telemetry_data |-> <<>>, max_speed |-> 0, min_speed |-> 0]
  ELSE LET acc == QualiSegments(calls, k - 1)
           call == calls[k]
       IN IF ~IsNone(acc.raised) THEN acc
          ELSE IF call.kind = "raise"
          THEN [acc EXCEPT !.driver_telemetry_data = Append(@, EmptyQuali)]
          ELSE LET speeds == SegmentSpeeds(call.value)
               IN IF IsNone(speeds)
                  THEN [acc EXCEPT !.raised = Some("KeyError"),
                                   !.driver_telemetry_data = Append(@, call.value)]
                  ELSE [raised |-> None,
                        driver_telemetry_data |-> Append(acc.driver_telemetry_data, call.value),
                        max_speed |-> Max(acc.max_speed, Val(speeds).max_speed),
                        min_speed |-> NextMinSpeed(acc.min_speed, Val(speeds).min_speed)]

\* Lines 827-834, done being the loop's end: what left the loop is raised,
\* otherwise the dict is returned.
QualiDriverEnds(driver, done) ==
  IF ~IsNone(done.raised) THEN Raised(Val(done.raised))
  ELSE Returned([driver_code |-> driver.code,
                 driver_telemetry_data |->
                   [seg \in Range(SegmentNames) |->
                     done.driver_telemetry_data[CHOOSE k \in 1..Len(SegmentNames) :
                                                  SegmentNames[k] = seg]],
                 max_speed |-> done.max_speed,
                 min_speed |-> done.min_speed])

\* How a call of _process_quali_driver ends for its caller.
ProcessQualiDriver(sess, driver) ==
  QualiDriverEnds(driver,
    QualiSegments([k \in 1..Len(SegmentNames) |->
                    Val(GetDriverQualiTelemetry(QualiCall(sess, driver, SegmentNames[k])))],
                  Len(SegmentNames)))

\* get_qualifying_results: one entry per row of session.results;
\* int(row["Position"]) raises a ValueError for a NaN, which is raised again.
GetQualifyingResults(sess) ==
  IF \E k \in 1..Len(sess.results) : IsNone(sess.results[k].Position)
  THEN Raised("ValueError")
  ELSE Returned([k \in 1..Len(sess.results) |->
                  [code |-> sess.results[k].Abbreviation,
                   position |-> Val(sess.results[k].Position),
                   color |-> <<255, 0, 0>>,
                   Q1 |-> sess.results[k].Q1]])

\* Lines 880-894: the loop over the results and the result dict.
RECURSIVE QualiSpeeds(_, _)
QualiSpeeds(rs, n) ==
  IF n = 0 THEN [max_speed |-> 0, min_speed |-> 0]
  ELSE LET acc == QualiSpeeds(rs, n - 1)
       IN [max_speed |-> Max(acc.max_speed, rs[n].max_speed),
           min_speed |-> NextMinSpeed(acc.min_speed, rs[n].min_speed)]

QualiResult(qualifying_results, rs) ==
  [results |-> qualifying_results,
   telemetry |-> [c \in {rs[i].driver_code : i \in 1..Len(rs)} |->
                   (CHOOSE r \in Range(rs) : r.driver_code = c).driver_telemetry_data],
   max_speed |-> QualiSpeeds(rs, Len(rs)).max_speed,
   min_speed |-> QualiSpeeds(rs, Len(rs)).min_speed]

\* What a driver may hold for a segment.  The telemetry of a fastest lap
\* has j + 1 samples in the j-th segment, DRS open at the second.
OkTelemetry(j) ==
  [k \in 1..(j + 1) |-> QualiSample((k - 1) * DT, k + j, IF k = 2 THEN 12 ELSE 8)]
SegmentCase(case, j) ==
  [laps |-> IF case \in {"none", "unset"} THEN case ELSE "ok",
   telemetry |-> IF case = "ok" THEN OkTelemetry(j) ELSE <<>>,
   LapTime |-> IF case = "ok" THEN j * DT + 1 ELSE 0]
\* Per driver the cases of Q1, Q2, Q3.
Profiles == {<<"ok", "ok", "ok">>, <<"ok", "ok", "none">>, <<"ok", "none", "none">>,
             <<"unset", "ok", "ok">>, <<"ok", "empty", "ok">>, <<"none", "none", "none">>}

QualiSessionOf(profiles, has_segment, session_type, positions) ==
  [name |-> "Monza",
   session_type |-> session_type,
   has_segment |-> has_segment,
   drivers |-> [i \in 1..Len(profiles) |->
                 [driver_no |-> i, code |-> Abbreviations[i],
                  segments |-> [seg \in Range(SegmentNames) |->
                                 LET j == CHOOSE k \in 1..3 : SegmentNames[k] = seg
                                 IN SegmentCase(profiles[i][j], j)]]],
   results |-> [i \in 1..Len(profiles) |->
                 [Abbreviation |-> Abbreviations[i], Position |-> positions[i],
                  Q1 |-> IF profiles[i][1] = "ok" THEN Some(DT + 1) ELSE None]],
   weather_data |-> None,
   track_status |-> <<>>]

AllSegments == [seg \in Range(SegmentNames) |-> TRUE]
Classified(n) == [i \in 1..n |-> Some(i)]

\* The drivers' segments vary.
QualiWorldsProfiles ==
  {World(QualiSessionOf(pr, AllSegments, "Q", Classified(NumQualiDrivers)), FALSE, NoFiles) :
     pr \in [1..NumQualiDrivers -> Profiles]}
\* A session that ended after Q2 or after Q1.
QualiWorldsSegments ==
  {World(QualiSessionOf(<<pr>>, [seg \in Range(SegmentNames) |-> seg \in run], "Q",
                        Classified(1)), FALSE, NoFiles) :
     pr \in {<<"ok", "ok", "none">>, <<"ok", "none", "none">>},
     run \in {{"Q1", "Q2"}, {"Q1"}}}
\* A driver without a position, and a session without drivers.
QualiWorldsResults ==
  {World(QualiSessionOf(<<<<"ok", "ok", "ok">>>>, AllSegments, "Q", <<None>>), FALSE, NoFiles),
   World(QualiSessionOf(<<>>, AllSegments, "Q", <<>>), FALSE, NoFiles)}
\* The cache and the refresh flag vary.
QualiWorldsCache ==
  {World(QualiSessionOf(<<<<"ok", "ok", "none">>>>, AllSegments, st, Classified(1)), refresh,
         [dir |-> ~IsNone(f),
          files |-> [p \in CachePaths |-> IF p[2] \in {"quali", "sprintquali"} THEN f ELSE None]]) :
     st \in {"Q", "SQ"}, refresh \in BOOLEAN, f \in OldFiles}

QualiWorlds == QualiWorldsProfiles \cup QualiWorldsSegments \cup QualiWorldsResults
               \cup QualiWorldsCache

InitQualiSession ==
  /\ \E w \in QualiWorlds :
       /\ session = w.session
       /\ argv_refresh = w.argv_refresh
       /\ fs = w.fs
  /\ pc = "q_start"
  /\ results = <<>>
  /\ aggregate = None
  /\ result = None
  /\ ret = None
  /\ arg = None
  /\ out = None
  /\ history = None

\* Lines 848-856: the cache is tried first; a hit is returned as it is.
QualiLoadCache ==
  /\ pc = "q_start"
  /\ LET cached_data == LoadCachedData(fs, QualiCachePath(session), argv_refresh, argv_refresh)
     IN IF Truthy(cached_data)
        THEN /\ ret' = Returned(Val(cached_data))
             /\ pc' = "q_done"
        ELSE /\ ret' = ret
             /\ pc' = "q_results"
  /\ UNCHANGED <<session, argv_refresh, fs, results, aggregate, result, fnVars>>

\* Line 860: the qualifying results; what the call raises ends the call.
QualiResults ==
  /\ pc = "q_results"
  /\ LET qualifying_results == Val(GetQualifyingResults(session))
     IN IF qualifying_results.kind = "raise"
        THEN /\ ret' = Raised(qualifying_results.exc)
             /\ pc' = "q_done"
             /\ aggregate' = aggregate
        ELSE /\ aggregate' = Some(qualifying_results.value)
             /\ pc' = "q_dispatch"
             /\ ret' = ret
  /\ UNCHANGED <<session, argv_refresh, fs, results, result, fnVars>>

\* Lines 868-875: the pool is made and pool.map hands every driver to a task.
QualiDispatch ==
  /\ pc = "q_dispatch"
  /\ Len(session.drivers) > 0
  /\ results' = [i \in 1..Len(session.drivers) |-> None]
  /\ pc' = "q_pool"
  /\ UNCHANGED <<session, argv_refresh, fs, aggregate, result, ret, fnVars>>

\* Lines 876-878: the pool itself fails; the exception is raised again.
QualiDispatchFails ==
  /\ pc = "q_dispatch"
  /\ ret' = Raised("DispatchError")
  /\ pc' = "q_done"
  /\ UNCHANGED <<session, argv_refresh, fs, results, aggregate, result, fnVars>>

\* Lines 871-878 for a session without drivers: Pool(processes=0) raises a
\* ValueError, which is raised again.
QualiDispatchNoDrivers ==
  /\ pc = "q_dispatch"
  /\ Len(session.drivers) = 0
  /\ ret' = Raised("ValueError")
  /\ pc' = "q_done"
  /\ UNCHANGED <<session, argv_refresh, fs, results, aggregate, result, fnVars>>

\* One task of the pool runs _process_quali_driver to its end; pool.map
\* raises in the caller what a task raised.
QualiTaskEnds(i, outcome) ==
  IF outcome.kind = "raise"
  THEN /\ ret' = Raised(outcome.exc)
       /\ pc' = "q_done"
       /\ results' = results
  ELSE /\ results' = [results EXCEPT ![i] = Some(outcome.value)]
       /\ UNCHANGED <<pc, ret>>

QualiRunTask(i) ==
  /\ pc = "q_pool"
  /\ IsNone(results[i])
  /\ QualiTaskEnds(i, Val(ProcessQualiDriver(session, session.drivers[i])))
  /\ UNCHANGED <<session, argv_refresh, fs, aggregate, result, fnVars>>

\* Lines 880-894: pool.map has returned every result; the result dict.
QualiCollect ==
  /\ pc = "q_pool"
  /\ AllReturned
  /\ result' = Some(QualiResult(Val(aggregate), PoolMapResults))
  /\ pc' = "q_save"
  /\ UNCHANGED <<session, argv_refresh, fs, results, aggregate, ret, fnVars>>

\* Lines 896-903: the result is saved; a failure to save is logged and the
\* result returned all the same.
QualiSaveCache ==
  /\ pc = "q_save"
  /\ \E outcome \in SaveOutcomes :
       /\ fs' = SaveCachedData(fs, Val(result), QualiCachePath(session), outcome)
       /\ history' = Some([save_cached_data |-> outcome])
       /\ ret' = AfterSave(outcome, Val(result))
  /\ pc' = "q_done"
  /\ UNCHANGED <<session, argv_refresh, results, aggregate, result, arg, out>>

NextQualiSession ==
  \/ QualiLoadCache
  \/ QualiResults
  \/ QualiDispatch
  \/ QualiDispatchFails
  \/ QualiDispatchNoDrivers
  \/ \E i \in 1..Len(results) : QualiRunTask(i)
  \/ QualiCollect
  \/ QualiSaveCache

SpecQualiSession == InitQualiSession /\ [][NextQualiSession]_vars

\* Both functions: a race or sprint session goes to get_race_telemetry, a
\* qualifying session to get_quali_telemetry.
InitPipelines == Init \/ InitQualiSession
NextPipelines == Next \/ NextQualiSession
SpecPipelines == InitPipelines /\ [][NextPipelines]_vars

\* Both resamplers: a session goes through get_race_telemetry, a fastest
\* lap through get_driver_quali_telemetry.
InitResamplers == Init \/ InitQuali
NextResamplers == Next \/ (pc = "idle" /\ NextQuali)
SpecResamplers == InitResamplers /\ [][NextResamplers]_vars

\* ------------------------------------------------------------ config.py
\* The module's state is arg: config is the global _config (None or an
\* instance), allocated the number of AppConfig objects made so far (an
\* instance's id is its number: a new object is none of the earlier ones),
\* F1_FPS the environment variable.  out is how the last call ended.
\* history keeps, of the get_config calls that returned, the instance of the
\* latest one since the last reset_config (since) and the ids of those
\* before it (before).
FpsValues == {"unset", "30", "abc"}

\* int(os.getenv("F1_FPS", self.fps)): None for the ValueError of a value
\* that is no integer.
FpsOf(value) ==
  IF value = "unset" THEN Some(25)
  ELSE IF value = "30" THEN Some(30)
  ELSE None

\* As ConfigMissing, true whatever _config holds.
ConfigMissingAlways(config) == TRUE

\* `if _config is None` (line 104).
ConfigMissing(config) == IsNone(config)

InitConfig ==
  /\ RaceIdle
  /\ arg = Some([config |-> None, allocated |-> 0, F1_FPS |-> "unset"])
  /\ out = None
  /\ history = Some([since |-> None, before |-> {}])

\* os.environ changes between two calls.
SetEnv(value) ==
  /\ Val(arg).F1_FPS # value
  /\ arg' = Some([Val(arg) EXCEPT !.F1_FPS = value])
  /\ out' = Some([fn |-> "setenv"])
  /\ UNCHANGED <<history, raceVars>>

\* A get_config that returns the instance; with it what the history held
\* before the call.
ConfigReturned(instance) ==
  Some([fn |-> "get_config", kind |-> "return", value |-> instance,
        since |-> Val(history).since, before |-> Val(history).before])

\* get_config().  dirs_ok says whether ensure_directories succeeds.  With
\* _config None: AppConfig() raises for an F1_FPS that is no integer and
\* _config stays None; otherwise the new instance is assigned to _config,
\* and if ensure_directories raises, the call raises with _config set.
GetConfig(dirs_ok) ==
  /\ UNCHANGED raceVars
  /\ LET m == Val(arg)
         instance == [id |-> m.allocated + 1, fps |-> Val(FpsOf(m.F1_FPS))]
     IN IF ~ConfigMissing(m.config)
        THEN /\ out' = ConfigReturned(Val(m.config))
             /\ history' = Some([Val(history) EXCEPT !.since = m.config])
             /\ arg' = arg
        ELSE /\ m.allocated < MaxInstances
             /\ IF IsNone(FpsOf(m.F1_FPS))
                THEN /\ out' = Some([fn |-> "get_config", kind |-> "raise", exc |-> "ValueError"])
                     /\ UNCHANGED <<arg, history>>
                ELSE /\ arg' = Some([m EXCEPT !.config = Some(instance),
                                              !.allocated = m.allocated + 1])
                     /\ IF dirs_ok
                        THEN /\ out' = ConfigReturned(instance)
                             /\ history' = Some([Val(history) EXCEPT !.since = Some(instance)])
                        ELSE /\ out' = Some([fn |-> "get_config", kind |-> "raise",
                                             exc |-> "OSError"])
                             /\ history' = history

\* reset_config().
ResetConfig ==
  /\ arg' = Some([Val(arg) EXCEPT !.config = None])
  /\ out' = Some([fn |-> "reset_config"])
  /\ history' = Some([since |-> None,
                      before |-> Val(history).before \cup
                                 (IF IsNone(Val(history).since) THEN {}
                                  ELSE {Val(Val(history).since).id})])
  /\ UNCHANGED raceVars

NextConfig ==
  \/ \E value \in FpsValues : SetEnv(value)
  \/ \E dirs_ok \in BOOLEAN : GetConfig(dirs_ok)
  \/ ResetConfig

SpecConfig == InitConfig /\ [][NextConfig]_vars

\* ------------------------------------------------------- ml/validation.py
\* A DataFrame is its set of columns and its rows, a row giving an integer
\* for every column.  A validator gives the exception it raises (None when
\* it returns) and what it logged, one entry per logger call above info
\* level: the level and the check that wrote it.
ForbiddenFeatures == {"race_position", "points"}

Logged(level, check) == <<[level |-> level, check |-> check]>>
Passed(log) == [exc |-> None, log |-> log]
Failed(exc, log) == [exc |-> Some(exc), log |-> log]

\* `if strict:` of validate_no_leakage (line 161) and of the except clause
\* of validate_ml_data (line 422).
StrictRaises(strict) == strict

\* validate_no_leakage(df, strict).
ValidateNoLeakage(df, strict) ==
  LET leaked_features == df.columns \cap ForbiddenFeatures
  IN IF leaked_features # {}
     THEN IF StrictRaises(strict)
          THEN Failed("DataLeakageError", Logged("error", "leakage"))
          ELSE Passed(Logged("warning", "leakage"))
     ELSE Passed(<<>>)

\* The rows of df[(year > current_year) | ((year == current_year) &
\* (round_number >= current_round))].
FutureData(df, current_year, current_round) ==
  SelectSeq(df.rows,
            LAMBDA row : \/ row["year"] > current_year
                         \/ /\ row["year"] = current_year
                            /\ row["round_number"] >= current_round)

\* validate_temporal_consistency(df, current_year, current_round).
ValidateTemporalConsistency(df, current_year, current_round) ==
  IF "year" \notin df.columns \/ "round_number" \notin df.columns
  THEN Passed(Logged("warning", "temporal"))
  ELSE IF Len(FutureData(df, current_year, current_round)) > 0
       THEN Failed("DataQualityError", Logged("error", "temporal"))
       ELSE Passed(<<>>)

\* The columns validate_feature_ranges looks at, with their ranges.
FeatureRanges ==
  [grid_position |-> [lo |-> 1, hi |-> 20], points |-> [lo |-> 0, hi |-> 26]]

\* The columns of df with a value out of its range: the issues list.
RangeIssues(df) ==
  {col \in DOMAIN FeatureRanges \cap df.columns :
     \E i \in DOMAIN df.rows :
        \/ df.rows[i][col] < FeatureRanges[col].lo
        \/ df.rows[i][col] > FeatureRanges[col].hi}

\* validate_feature_ranges(df).
ValidateFeatureRanges(df) ==
  IF RangeIssues(df) # {}
  THEN Failed("DataQualityError", Logged("error", "ranges"))
  ELSE Passed(<<>>)

\* validate_required_features(df, required_features).
ValidateRequiredFeatures(df, required_features) ==
  LET missing_features == Range(required_features) \ df.columns
  IN IF missing_features # {}
     THEN Failed("DataQualityError", Logged("error", "required"))
     ELSE Passed(<<>>)

\* Steps 1 and 2 of validate_ml_data: the leakage check, then the temporal
\* check when current_year and current_round are both given.
ValidateLeakageAndTime(a) ==
  LET leakage == ValidateNoLeakage(a.df, a.strict)
  IN IF ~IsNone(leakage.exc) THEN leakage
     ELSE IF ~IsNone(a.current_year) /\ ~IsNone(a.current_round)
          THEN LET temporal == ValidateTemporalConsistency(
                                 a.df, Val(a.current_year), Val(a.current_round))
               IN [exc |-> temporal.exc, log |-> leakage.log \o temporal.log]
          ELSE leakage

\* Step 3: validate_feature_ranges in its try; the DataQualityError is
\* raised again when strict, logged as a warning otherwise.
ValidateRangesCaught(a) ==
  LET ranges == ValidateFeatureRanges(a.df)
  IN IF IsNone(ranges.exc) THEN ranges
     ELSE IF StrictRaises(a.strict) THEN ranges
          ELSE Passed(ranges.log \o Logged("warning", "ranges"))

\* Step 4: `if required_features:` is false for None and for an empty list.
ValidateRequiredIfGiven(a) ==
  IF ~IsNone(a.required_features) /\ Len(Val(a.required_features)) > 0
  THEN ValidateRequiredFeatures(a.df, Val(a.required_features))
  ELSE Passed(<<>>)

\* validate_ml_data(df, current_year, current_round, required_features,
\* strict): the four steps in order, the first exception ends the call.
ValidateMlData(a) ==
  LET first == ValidateLeakageAndTime(a)
      ranges == ValidateRangesCaught(a)
      required == ValidateRequiredIfGiven(a)
  IN IF ~IsNone(first.exc) THEN first
     ELSE IF ~IsNone(ranges.exc)
          THEN [exc |-> ranges.exc, log |-> first.log \o ranges.log]
          ELSE [exc |-> required.exc,
                log |-> first.log \o ranges.log \o required.log]

\* The DataFrame with these columns; rows gives the values by column name.
DataFrame(columns, rows) ==
  [columns |-> columns,
   rows |-> [i \in DOMAIN rows |-> [col \in columns |-> rows[i][col]]]]

SeqsUpTo(S, n) == UNION {[1..k -> S] : k \in 0..n}

\* Rows that differ in when they were recorded: a season before 2024, and
\* rounds before, at and after round 5 of 2024.
RowsInTime ==
  SeqsUpTo([year : {2023, 2024, 2025}, round_number : {4, 5, 6},
            grid_position : {1}, points : {0}, race_position : {1}], MaxDfRows)

\* Rows that differ in their values, in and out of the ranges.
RowsInRange ==
  SeqsUpTo([year : {2023}, round_number : {1},
            grid_position : {0, 1, 21}, points : {0, 27}, race_position : {1}],
           MaxDfRows)

\* Calls over the columns year and round_number.
ValidationCallsTemporal ==
  {[df |-> DataFrame(columns \cup {"grid_position"}, rows),
    current_year |-> current_year, current_round |-> current_round,
    required_features |-> None, strict |-> strict] :
     columns \in SUBSET {"year", "round_number"}, rows \in RowsInTime,
     current_year \in {None, Some(2024)}, current_round \in {None, Some(5)},
     strict \in BOOLEAN}

\* Calls over the forbidden, the ranged and the required columns.
ValidationCallsFeatures ==
  {[df |-> DataFrame(columns \cup {"year", "round_number"}, rows),
    current_year |-> Some(2024), current_round |-> Some(5),
    required_features |-> required_features, strict |-> strict] :
     columns \in SUBSET {"grid_position", "points", "race_position"},
     rows \in RowsInRange,
     required_features \in {None, Some(<<>>), Some(<<"grid_position">>),
                            Some(<<"grid_position", "win_rate">>)},
     strict \in BOOLEAN}

ValidationCalls == ValidationCallsTemporal \cup ValidationCallsFeatures

InitValidation ==
  /\ RaceIdle
  /\ arg \in {Some(a) : a \in ValidationCalls}
  /\ out = None
  /\ history = None

\* The call of validate_ml_data on the arguments.
CallValidateMlData ==
  /\ out = None
  /\ out' = Some(ValidateMlData(Val(arg)))
  /\ UNCHANGED <<arg, history, raceVars>>

NextValidation == CallValidateMlData

SpecValidation == InitValidation /\ [][NextValidation]_vars

\* ================================================================ claims
Frames == IF IsNone(result) THEN <<>> ELSE Val(result).frames
DriverCount == Len(session.drivers)
HasTelemetry(driver) ==
  /\ ~ExtractRaises(driver)
  /\ \E k \in 1..Len(driver.laps) : driver.laps[k].tel # <<>>
\* The drivers with data, and their number K.
WithData == {i \in 1..DriverCount : HasTelemetry(session.drivers[i])}
K == Cardinality(WithData)
DriverIndex(code) == CHOOSE i \in 1..DriverCount : session.drivers[i].code = code
\* Every SessionTime of the session's telemetry.
InputTimes ==
  UNION {UNION {{s.SessionTime : s \in Range(lap.tel)} : lap \in Range(driver.laps)} :
         driver \in {d \in Range(session.drivers) : ~ExtractRaises(d)}}

\* C1: for every competitor with at least one lap with telemetry, the race
\* distance of the series _process_single_driver returns is non-decreasing in
\* time order, also across lap boundaries.
C1_RaceDistanceNonDecreasing ==
  \A i \in 1..Len(results) :
    (~IsNone(results[i]) /\ ~IsNone(Val(results[i]))) =>
      LET data == Val(Val(results[i])).data IN
      \A k \in 1..(Len(data) - 1) : data[k].dist <= data[k + 1].dist

\* C3: in every frame of get_race_telemetry the positions are exactly 1..K,
\* K the number of competitors with data: none twice, none skipped.
C3_PositionsAreOneToK ==
  \A n \in 1..Len(Frames) :
    LET drivers == Frames[n].drivers IN
    /\ DOMAIN drivers = {session.drivers[i].code : i \in WithData}
    /\ {drivers[c].position : c \in DOMAIN drivers} = 1..K

C3_Witness ==
  /\ Len(Frames) >= 2
  /\ K >= 2
  /\ K < DriverCount

\* C4: in every frame a competitor with more race distance has the smaller
\* position, and competitors of equal distance keep their driver-list order.
C4_StableDescendingRank ==
  \A n \in 1..Len(Frames) :
    LET drivers == Frames[n].drivers IN
    \A a \in DOMAIN drivers : \A b \in DOMAIN drivers :
      /\ drivers[a].dist > drivers[b].dist => drivers[a].position < drivers[b].position
      /\ (drivers[a].dist = drivers[b].dist /\ DriverIndex(a) < DriverIndex(b))
           => drivers[a].position < drivers[b].position

\* A frame with a tie and a frame where the later-listed driver leads.
C4_Witness ==
  /\ \E n \in 1..Len(Frames) : \E a, b \in DOMAIN Frames[n].drivers :
       a # b /\ Frames[n].drivers[a].dist = Frames[n].drivers[b].dist
  /\ \E n \in 1..Len(Frames) : \E a, b \in DOMAIN Frames[n].drivers :
       /\ DriverIndex(a) < DriverIndex(b)
       /\ Frames[n].drivers[a].dist < Frames[n].drivers[b].dist
       /\ Frames[n].drivers[b].position = 1

\* The scenario: VER sampled at t = 0, 1, 2 ticks with distance 0, 10, 20,
\* HAM at the same times with 0, 5, 15, nobody else with laps.
Scenario ==
  /\ DriverCount >= 2
  /\ session.drivers[1].laps = LapsOf(<<ShapeA>>)
  /\ session.drivers[2].laps = LapsOf(<<ShapeB>>)
  /\ \A i \in 3..DriverCount : session.drivers[i].laps = <<>>
FrameTimes == [n \in 1..Len(Frames) |-> Frames[n].t]
ScenarioRanks ==
  /\ Len(Frames) >= 2
  /\ Frames[2].drivers["VER"].position = 1
  /\ Frames[2].drivers["HAM"].position = 2

\* C5, as claimed: the scenario gives the timeline [0, 1, 2] ticks, the tick
\* at the full span included, and the frame at tick 1 ranks A = 1, B = 2.
C5_ScenarioThreeTicks ==
  (Scenario /\ ~IsNone(result)) =>
    /\ FrameTimes = <<0, DT, 2 * DT>>
    /\ ScenarioRanks

\* C5, amended: the scenario gives the timeline [0, 1] ticks (the tick at the
\* full span is left out), and the frame at tick 1 ranks A = 1, B = 2.
C5_ScenarioTwoTicks ==
  (Scenario /\ ~IsNone(result)) =>
    /\ FrameTimes = <<0, DT>>
    /\ ScenarioRanks

C5_Witness == Scenario /\ ~IsNone(result) /\ pc = "done"

\* C9: a competitor without laps, or with empty telemetry on every lap,
\* yields None, adds nothing to the global bounds, and is in no frame.
C9_NoDataDriverExcluded ==
  \A i \in 1..DriverCount :
    ~HasTelemetry(session.drivers[i]) =>
      /\ (i <= Len(results) /\ ~IsNone(results[i])) => IsNone(Val(results[i]))
      /\ ~IsNone(aggregate) =>
           /\ \A k \in 1..Len(Val(aggregate).driver_data) :
                Val(aggregate).driver_data[k].code # session.drivers[i].code
           /\ InputTimes # {} =>
                /\ Val(aggregate).global_t_min = Some(CHOOSE t \in InputTimes :
                                                       \A u \in InputTimes : t <= u)
                /\ Val(aggregate).global_t_max = Some(CHOOSE t \in InputTimes :
                                                       \A u \in InputTimes : t >= u)
           /\ InputTimes = {} => IsNone(Val(aggregate).global_t_min)
      /\ \A n \in 1..Len(Frames) : session.drivers[i].code \notin DOMAIN Frames[n].drivers

\* A driver whose every lap is empty beside one that starts late, frames built.
C9_Witness ==
  /\ Len(Frames) >= 1
  /\ \E i \in 1..DriverCount :
       session.drivers[i].laps # <<>> /\ ~HasTelemetry(session.drivers[i])
  /\ Val(Val(aggregate).global_t_min) > 0

\* ------------------------------------------- the cache on its own
\* Any sequence of save_cached_data and load_cached_data calls on two paths.
UsedPaths == {<<"Monza", "race">>, <<"Monza", "quali">>}
CacheData == {OldArtifact, [OldArtifact EXCEPT !.total_laps = 8]}

InitCache ==
  /\ session = None
  /\ argv_refresh \in BOOLEAN
  /\ fs = NoFiles
  /\ pc = "idle"
  /\ results = <<>>
  /\ aggregate = None
  /\ result = None
  /\ ret = None
  /\ arg = None
  /\ out = None
  /\ history = [saved |-> [p \in UsedPaths |-> None], torn |-> {}]

\* save_cached_data(data, cache_path), ending as outcome says.
Save(cache_path, data, outcome) ==
  /\ fs' = SaveCachedData(fs, data, cache_path, outcome)
  /\ history' = IF outcome = "ok"
                 THEN [saved |-> [history.saved EXCEPT ![cache_path] = Some(data)],
                       torn |-> history.torn \ {cache_path}]
                 ELSE IF outcome = "dump"
                 THEN [history EXCEPT !.torn = @ \cup {cache_path}]
                 ELSE history
  /\ out' = Some([fn |-> "save_cached_data", path |-> cache_path,
                  raised |-> SaveRaises(outcome)])
  /\ UNCHANGED <<session, argv_refresh, pc, results, aggregate, result, ret, arg>>

\* load_cached_data(cache_path, refresh); out keeps what was asked, what
\* came back and what the history said at that moment.
Load(cache_path, refresh) ==
  /\ out' = Some([fn |-> "load_cached_data", path |-> cache_path,
                  refresh |-> refresh \/ argv_refresh,
                  value |-> LoadCachedData(fs, cache_path, refresh, argv_refresh),
                  saved |-> history.saved[cache_path],
                  torn |-> cache_path \in history.torn])
  /\ UNCHANGED <<session, argv_refresh, fs, pc, results, aggregate, result, ret, arg, history>>

NextCache ==
  \/ \E cache_path \in UsedPaths, data \in CacheData, outcome \in SaveOutcomes :
       Save(cache_path, data, outcome)
  \/ \E cache_path \in UsedPaths, refresh \in BOOLEAN : Load(cache_path, refresh)

SpecCache == InitCache /\ [][NextCache]_vars

\* The last call was a load_cached_data without refresh of a path that was
\* saved successfully before.
LoadedAfterSave ==
  /\ ~IsNone(out)
  /\ Val(out).fn = "load_cached_data"
  /\ ~Val(out).refresh
  /\ ~IsNone(Val(out).saved)

\* C8, as claimed: after any sequence of puts and gets, a get without
\* refresh returns the artifact of the most recent successful put for that
\* key, and a put for one key changes no other key's get.
C8_GetReturnsLastSuccessfulPut ==
  LoadedAfterSave => Val(out).value = Val(out).saved

\* C8, amended: a get without refresh returns the artifact of the most
\* recent successful put for that key, unless a later put for that key failed
\* after opening the file, and then it reports a miss; every other key's get
\* is what it was.
C8_GetReturnsLastPutUnlessTorn ==
  /\ LoadedAfterSave =>
       Val(out).value = IF Val(out).torn THEN None ELSE Val(out).saved
  /\ ~IsNone(history) =>
       \A p \in UsedPaths :
         ~IsNone(history.saved[p]) =>
           LoadCachedData(fs, p, FALSE, FALSE)
             = IF p \in history.torn THEN None ELSE history.saved[p]

\* A get that returns the second of two different puts for its key while
\* the other key still holds its own.
C8_Witness ==
  /\ LoadedAfterSave
  /\ ~Val(out).torn
  /\ Val(out).value = Some([OldArtifact EXCEPT !.total_laps = 8])
  /\ \E p \in UsedPaths :
       /\ p # Val(out).path
       /\ history.saved[p] = Some(OldArtifact)
       /\ p \notin history.torn

\* What SpecTimeline built, and the span it was built for.
BuiltTimeline == Val(out).timeline
Span == Val(arg).global_t_max - Val(arg).global_t_min
OffsetsAreWholeSteps ==
  /\ \A i \in 1..Len(BuiltTimeline) : BuiltTimeline[i] = (i - 1) * DT
  /\ Len(BuiltTimeline) > 0 => BuiltTimeline[1] = 0

C6_SegmentsAreContiguous ==
  ~IsNone(result) =>
    LET segments == Val(result).track_statuses
        events == session.track_status
        t_min == Val(Val(aggregate).global_t_min)
        n == Len(events)
    IN /\ Len(segments) = n
       /\ \A i \in 1..n :
            /\ segments[i].status = events[i].Status
            /\ segments[i].start_time = events[i].Time - t_min
            /\ i < n => segments[i].end_time = Some(segments[i + 1].start_time)
            /\ i = n => IsNone(segments[i].end_time)

\* Two events or more, shifted by a global_t_min above 0.
C6_Witness ==
  /\ ~IsNone(result)
  /\ Len(Val(result).track_statuses) >= 2
  /\ Val(Val(aggregate).global_t_min) > 0
  /\ Val(result).track_statuses[1].end_time = Some(Val(result).track_statuses[2].start_time)

\* The rainfall np.interp gives at tick n (times Scale), where the table
\* has a rainfall column.
RainfallAvailable ==
  /\ ~IsNone(session.weather_data)
  /\ "Rainfall" \in Val(session.weather_data).columns
RainfallAt(n) ==
  LET wx == Val(session.weather_data)
      t_min == Val(Val(aggregate).global_t_min)
      rows == SortByT([k \in 1..Len(wx.rows) |-> [t |-> wx.rows[k].Time - t_min,
                                                 rain |-> wx.rows[k].Rainfall]])
  IN Interp(Frames[n].t, [k \in 1..Len(rows) |-> rows[k].t],
            [k \in 1..Len(rows) |-> rows[k].rain])

\* C7: where rainfall is available, a frame's rain_state is "RAINING" if
\* and only if the rainfall interpolated at its tick is >= 0.5, else "DRY".
C7_RainStateThreshold ==
  RainfallAvailable =>
    \A n \in 1..Len(Frames) :
      "weather" \in DOMAIN Frames[n] =>
        /\ Frames[n].weather.rain_state \in {"RAINING", "DRY"}
        /\ Frames[n].weather.rain_state = "RAINING" <=> 2 * RainfallAt(n) >= Scale

\* A frame exactly at 0.5, a frame at 0 and a frame strictly between 0 and 0.5.
C7_Witness ==
  /\ RainfallAvailable
  /\ \E n \in 1..Len(Frames) :
       /\ "weather" \in DOMAIN Frames[n]
       /\ 2 * RainfallAt(n) = Scale
       /\ Frames[n].weather.rain_state = "RAINING"
  /\ \E n \in 1..Len(Frames) :
       /\ "weather" \in DOMAIN Frames[n]
       /\ RainfallAt(n) = 0
       /\ Frames[n].weather.rain_state = "DRY"

\* Sanity of the arithmetic: every gap np.interp divides by divides Scale.
GapsDivideScale ==
  /\ \A i \in 1..Len(results) :
       (~IsNone(results[i]) /\ ~IsNone(Val(results[i]))) =>
         LET data == Val(Val(results[i])).data IN
         \A k \in 1..(Len(data) - 1) :
           data[k + 1].t > data[k].t => Scale % (data[k + 1].t - data[k].t) = 0
  /\ ~IsNone(session.weather_data) =>
       \A a, b \in Range(Val(session.weather_data).rows) :
         a.Time > b.Time => Scale % (a.Time - b.Time) = 0


\* What a call of get_driver_quali_telemetry returned with its zones.
QualiReturned ==
  /\ ~IsNone(arg)
  /\ "telemetry" \in DOMAIN Val(arg)
  /\ ~IsNone(out)
  /\ Val(out).kind = "return"
  /\ "drs_zones" \in DOMAIN Val(out).value
QualiFrames == Val(out).value.frames
DrsOn(i) == QualiFrames[i].telemetry.drs >= 10
UpTicks == {i \in 2..Len(QualiFrames) : DrsOn(i) /\ ~DrsOn(i - 1)}
DownTicks == {i \in 2..Len(QualiFrames) : ~DrsOn(i) /\ DrsOn(i - 1)}
ZoneOf(u) ==
  LET later == {d \in DownTicks : d > u}
  IN [zone_start |-> QualiFrames[u].telemetry.dist,
      zone_end |-> IF later = {} THEN None
                   ELSE Some(QualiFrames[CHOOSE d \in later : \A e \in later : d <= e].telemetry.dist)]

\* C10: in the single-competitor timeline the zones are one per upward
\* crossing of the DRS code over 10, in tick order; each starts at the
\* distance of its upward-crossing tick and ends at the distance of the next
\* downward-crossing tick, or is open if there is none.  DRS codes
\* [8, 8, 10, 10, 8] at distances [0, 1, 2, 3, 4] give the one zone
\* {start = 2, end = 4}.
C10_ZonesFollowCrossings ==
  QualiReturned =>
    /\ Len(Val(out).value.drs_zones) = Cardinality(UpTicks)
    /\ \A u \in UpTicks :
         Val(out).value.drs_zones[Cardinality({v \in UpTicks : v <= u})] = ZoneOf(u)
    /\ Val(arg).telemetry = ScenarioTelemetry =>
         Val(out).value.drs_zones = <<[zone_start |-> 2 * Scale, zone_end |-> Some(4 * Scale)]>>

\* The scenario has run: one zone, closed; its ticks have the distances
\* 0..4 and the codes of the scenario.
C10_Witness ==
  /\ QualiReturned
  /\ Val(arg).telemetry = ScenarioTelemetry
  /\ [i \in 1..Len(QualiFrames) |-> QualiFrames[i].telemetry.drs] = ScenarioCodes
  /\ [i \in 1..Len(QualiFrames) |-> QualiFrames[i].telemetry.dist] =
       [i \in 1..5 |-> (i - 1) * Scale]
  /\ Len(Val(out).value.drs_zones) = 1
  /\ ~IsNone(Val(out).value.drs_zones[1].zone_end)


\* ------------------------------------------- failures and the cache
SomeRaises == \E i \in 1..DriverCount :
  session.drivers[i].laps # <<>> /\ ExtractRaises(session.drivers[i])
RetRaised == ~IsNone(ret) /\ Val(ret).kind = "raise"
RetReturned == ~IsNone(ret) /\ Val(ret).kind = "return"

\* C11: an exception raised while one competitor is extracted stays in that
\* competitor's task, which returns None; every other task returns its own
\* driver's result; and get_race_telemetry goes on to aggregate the drivers
\* that are left: nothing is raised to its caller because of the exception.
C11_ExtractionFailureIsolated ==
  /\ \A i \in 1..Len(results) :
       ~IsNone(results[i]) =>
         /\ ExtractRaises(session.drivers[i]) => IsNone(Val(results[i]))
         /\ HasTelemetry(session.drivers[i]) =>
              /\ ~IsNone(Val(results[i]))
              /\ Val(Val(results[i])).code = session.drivers[i].code
  /\ RetRaised => Val(ret).exc \in {"DispatchError", "ValueError"}
  /\ (RetRaised /\ Val(ret).exc = "ValueError") => WithData = {}
  /\ (pc \in {"frames", "save", "done"} /\ results # <<>> /\ ~RetRaised) =>
       /\ ~IsNone(aggregate)
       /\ {Val(aggregate).driver_data[k].code : k \in 1..Len(Val(aggregate).driver_data)}
            = {session.drivers[i].code : i \in WithData}

\* One driver's extraction raised, another driver has data, and the call
\* returned frames that hold the drivers with data.
C11_Witness ==
  /\ SomeRaises
  /\ WithData # {}
  /\ pc = "done"
  /\ RetReturned
  /\ Len(Frames) >= 1
  /\ DOMAIN Frames[1].drivers = {session.drivers[i].code : i \in WithData}


\* Every task has returned, and returned None.
AllSentinel ==
  /\ results # <<>>
  /\ \A i \in 1..Len(results) : ~IsNone(results[i]) /\ IsNone(Val(results[i]))

\* C12: if every competitor's extraction returns None, get_race_telemetry
\* ends in the ValueError of lines 338-341: no timeline and no frame is
\* built, and nothing is returned.
C12_NoValidDataIsFatal ==
  AllSentinel =>
    /\ pc \in {"pool", "done"}
    /\ IsNone(result)
    /\ pc = "done" => ret = Raised("ValueError")
    /\ pc = "pool" => IsNone(ret)

\* The call has ended for a session of drivers none of whom gave data, one
\* of them because its extraction raised.
C12_Witness ==
  /\ AllSentinel
  /\ pc = "done"
  /\ ret = Raised("ValueError")
  /\ SomeRaises


\* The save of the call ended as outcome says.
SaveEnded(outcome) == history = Some([save_cached_data |-> outcome])

\* C13: with the refresh flag set the cached artifact is never returned: a
\* call that returns has run the extraction and returns the artifact it
\* computed, and once its save has succeeded a load without refresh gives
\* that artifact.
C13_RefreshRecomputesAndOverwrites ==
  argv_refresh =>
    /\ RetReturned =>
         /\ results # <<>>
         /\ ~IsNone(result)
         /\ Val(ret).value = Val(result)
    /\ (pc = "done" /\ SaveEnded("ok")) =>
         LoadCachedData(fs, RaceCachePath(session), FALSE, FALSE) = Some(Val(result))

\* Refresh was asked for while the cache held a readable artifact (the
\* sprint entry still holds its copy); the call returned what it computed and
\* the race entry now holds that.
C13_Witness ==
  /\ argv_refresh
  /\ pc = "done"
  /\ RetReturned
  /\ SaveEnded("ok")
  /\ session.session_type = "R"
  /\ fs.files[<<"Monza", "sprint">>] = Some(Pickle(OldArtifact))
  /\ Val(ret).value # OldArtifact
  /\ LoadCachedData(fs, RaceCachePath(session), FALSE, FALSE) = Some(Val(result))


\* C14: a save_cached_data that raises is not fatal: get_race_telemetry and
\* get_quali_telemetry return the artifact they computed and raise nothing.
C14_SaveFailureNotFatal ==
  (SaveEnded("mkdir") \/ SaveEnded("dump")) =>
    /\ pc \in {"done", "q_done"}
    /\ ~IsNone(result)
    /\ ret = Returned(Val(result))

\* get_quali_telemetry has returned its artifact although the write broke
\* off and left a truncated file.
C14_Witness ==
  /\ pc = "q_done"
  /\ SaveEnded("dump")
  /\ fs.files[QualiCachePath(session)] = Some(Truncated)
  /\ RetReturned
  /\ Val(ret).value.telemetry # <<>>


\* The entry the call found under its cache path.  A race session's call
\* writes the race entry only and every input holds the same file under
\* the race and the sprint path, so the other of the two still shows it.
FoundEntry ==
  fs.files[<<session.name, IF session.session_type = "S" THEN "race" ELSE "sprint">>]
\* No file, or a file that does not unpickle.
NothingToLoad == IsNone(FoundEntry) \/ ~Val(FoundEntry).stop

\* C15: where the cache entry is missing or cannot be unpickled,
\* load_cached_data gives None and raises nothing, and get_race_telemetry
\* runs the whole computation: what it returns is the artifact it computed,
\* and with a driver that has data only a failing pool keeps it from
\* returning.
C15_MissLeadsToComputation ==
  (~argv_refresh /\ NothingToLoad) =>
    /\ LoadCachedData([fs EXCEPT !.files[RaceCachePath(session)] = FoundEntry],
                      RaceCachePath(session), FALSE, FALSE) = None
    /\ pc = "done" => results # <<>> \/ RetRaised
    /\ RetReturned => ~IsNone(result) /\ Val(ret).value = Val(result)
    /\ (RetRaised /\ WithData # {}) => Val(ret).exc = "DispatchError"

\* The call found a truncated file, computed and returned the artifact.
C15_Witness ==
  /\ ~argv_refresh
  /\ FoundEntry = Some(Truncated)
  /\ pc = "done"
  /\ RetReturned
  /\ Val(ret).value = Val(result)
  /\ Len(Frames) >= 1


\* C16: aggregation is a barrier.  Wherever get_race_telemetry has reduced
\* the bounds, stands at building the timeline or has built frames, every
\* extraction task has returned; while a task still runs there is no
\* aggregate, no timeline and no frame.
C16_AggregationIsBarrier ==
  (pc \in {"pool", "frames", "save", "done"}
     /\ (~IsNone(aggregate) \/ ~IsNone(result) \/ pc \in {"frames", "save"})) =>
    /\ Len(results) = DriverCount
    /\ \A i \in 1..Len(results) : ~IsNone(results[i])

\* The bounds are reduced and the timeline is next, after the tasks of
\* several drivers have returned, one of them None.
C16_Witness ==
  /\ pc = "frames"
  /\ ~IsNone(aggregate)
  /\ Len(results) >= 2
  /\ \A i \in 1..Len(results) : ~IsNone(results[i])
  /\ \E i \in 1..Len(results) : IsNone(Val(results[i]))


\* C17: whenever get_race_telemetry raises (the pool fails, or no driver
\* gives valid data), the call has ended, it has assembled and returned no
\* artifact, and the cache is as the call found it: no save was tried, the
\* directory and the entry are unchanged.
C17_FatalErrorLeavesCacheAlone ==
  RetRaised =>
    /\ pc = "done"
    /\ IsNone(result)
    /\ IsNone(history)
    /\ fs.files[RaceCachePath(session)] = FoundEntry
    /\ fs.dir = ~IsNone(FoundEntry)

\* A refresh was asked for over a readable entry, no driver gave data, the
\* call raised, and the entry is still the old artifact.
C17_Witness ==
  /\ RetRaised
  /\ Val(ret).exc = "ValueError"
  /\ argv_refresh
  /\ AllSentinel
  /\ fs.files[RaceCachePath(session)] = Some(Pickle(OldArtifact))


\* The last call was a get_config that returned.
ConfigGiven ==
  /\ ~IsNone(out)
  /\ Val(out).fn = "get_config"
  /\ Val(out).kind = "return"

\* C18: a get_config that returns gives the instance the get_config calls
\* since the last reset_config gave (the same object with the same values),
\* and the first one to return after a reset_config gives an instance that
\* no get_config before the reset gave.
C18_ConfigIsSingleton ==
  ConfigGiven =>
    /\ ~IsNone(Val(out).since) => Val(out).value = Val(Val(out).since)
    /\ IsNone(Val(out).since) => Val(out).value.id \notin Val(out).before

\* After two instances were given and reset, a third is given, made under
\* another environment.
C18_Witness ==
  /\ ConfigGiven
  /\ IsNone(Val(out).since)
  /\ Cardinality(Val(out).before) >= 2
  /\ Val(out).value.fps = 30

\* validate_ml_data was called and ended.
Validated == ~IsNone(out) /\ "log" \in DOMAIN Val(out)

\* C19: in non-strict mode (strict = False) validate_ml_data only warns and
\* never raises, whatever validation problems the data has: forbidden
\* features, values out of range, rows from the current or a later round,
\* required features that are missing.
C19_NonStrictNeverRaises ==
  (Validated /\ ~Val(arg).strict) => IsNone(Val(out).exc)

\* The gears of the samples at the latest sample time at or before x: one
\* gear, unless several samples share that time; none before the first
\* sample.  samples is a set of records with t and gear.
HeldGears(samples, x) ==
  LET before == {s \in samples : s.t <= x}
  IN {s.gear : s \in {b \in before : \A c \in before : c.t <= b.t}}

\* What the session holds for a driver: time and gear of every sample.
RaceSamples(code) ==
  UNION {{[t |-> s.SessionTime, gear |-> s.nGear] : s \in Range(lap.tel)} :
         lap \in Range(session.drivers[DriverIndex(code)].laps)}
QualiSamples ==
  {[t |-> s.Time, gear |-> s.nGear] : s \in Range(Val(arg).telemetry)}
SetMin(S) == CHOOSE m \in S : \A e \in S : m <= e

\* The race frames hold the gear of the last sample at or before the tick.
RaceGearIsHeld ==
  \A n \in 1..Len(Frames) : \A code \in DOMAIN Frames[n].drivers :
    LET held == HeldGears(RaceSamples(code), SetMin(InputTimes) + Frames[n].t)
    IN held # {} => Frames[n].drivers[code].gear \in held

\* The qualifying frames hold the gear of the last sample at or before the
\* tick; tick i of the timeline is (i - 1) * DT after the first sample.
QualiGearIsHeld ==
  QualiReturned =>
    \A i \in 1..Len(QualiFrames) :
      QualiFrames[i].telemetry.gear \in
        HeldGears(QualiSamples, SetMin({s.t : s \in QualiSamples}) + (i - 1) * DT)

\* C20: gear is a right-continuous step function: at every tick the gear of
\* a frame is the gear of the competitor's last sample at or before the tick
\* time, never a value interpolated between two samples, in
\* get_race_telemetry and in get_driver_quali_telemetry alike.
C20_GearIsStepFunction == RaceGearIsHeld /\ QualiGearIsHeld

\* The lap numbers and the tyre codes of the laps the session holds for a
\* driver.
LapNumbersOf(code) ==
  {lap.LapNumber : lap \in Range(session.drivers[DriverIndex(code)].laps)}
TyreCodesOf(code) ==
  {lap.Compound : lap \in Range(session.drivers[DriverIndex(code)].laps)}

\* C21: in every frame of get_race_telemetry a competitor's lap is an
\* integer lap number of its laps and its tyre code is one of the integer
\* tyre codes of its laps, the interpolated value rounded to the nearest one,
\* also at a tick between two samples with different codes.
C21_LapAndTyreAreRounded ==
  \A n \in 1..Len(Frames) : \A code \in DOMAIN Frames[n].drivers :
    /\ Frames[n].drivers[code].lap \in LapNumbersOf(code)
    /\ Frames[n].drivers[code].tyre \in {c * Scale : c \in TyreCodesOf(code)}

\* A channel of a time-sorted series interpolated at time x, times Scale.
InterpolatedAt(series, name, x) ==
  Interp(x, [k \in 1..Len(series) |-> series[k].t],
         [k \in 1..Len(series) |-> series[k][name]])

\* A driver's samples of the session in time order, and the samples of the
\* fastest lap in time order, one per sample time, with the source's brake.
RaceSeries(code) ==
  SortByT(CollectLaps(session.drivers[DriverIndex(code)].laps, 0))
QualiSeries ==
  UniqueByT(SortByT([k \in 1..Len(Val(arg).telemetry) |->
              [t |-> Val(arg).telemetry[k].Time,
               brake |-> Val(arg).telemetry[k].Brake]]))

\* The race frames hold 100 times the interpolated brake.
RaceBrakeIsPercent ==
  \A n \in 1..Len(Frames) : \A code \in DOMAIN Frames[n].drivers :
    Frames[n].drivers[code].brake =
      100 * InterpolatedAt(RaceSeries(code), "brake", SetMin(InputTimes) + Frames[n].t)

\* The qualifying frames hold 100 times the interpolated brake.
QualiBrakeIsPercent ==
  QualiReturned =>
    \A i \in 1..Len(QualiFrames) :
      QualiFrames[i].telemetry.brake =
        100 * InterpolatedAt(QualiSeries, "brake", QualiSeries[1].t + (i - 1) * DT)

\* C22: the brake of every frame is a percentage, 100 times the
\* interpolated brake of the source (which is between 0 and 1), in the
\* frames of get_race_telemetry and of get_driver_quali_telemetry alike.
C22_BrakeIsPercent == RaceBrakeIsPercent /\ QualiBrakeIsPercent

\* The session's weather cannot be used: there is none, the table has no
\* rows, or its Time column is missing and the resampling fails.
WeatherUnusable ==
  \/ IsNone(session.weather_data)
  \/ Val(session.weather_data).rows = <<>>
  \/ ~Val(session.weather_data).has_time

\* get_race_telemetry computed its result (it did not come from the cache).
Computed == ~IsNone(aggregate) /\ ~IsNone(result)

\* C23: with no weather data, an empty weather table, or a weather table the
\* resampling fails on, get_race_telemetry still completes, its frames are
\* the frames of the same session without weather, and none has a weather
\* field.
C23_WeatherDegradesGracefully ==
  (Computed /\ WeatherUnusable) =>
    /\ \A n \in 1..Len(Frames) : "weather" \notin DOMAIN Frames[n]
    /\ Frames = RaceResult([session EXCEPT !.weather_data = None], Val(aggregate)).frames
    /\ pc = "done" => ret = Returned(Val(result))

\* A session whose weather table has rows but no Time column was computed
\* and returned with frames.
C23_Witness ==
  /\ Computed
  /\ pc = "done"
  /\ ~IsNone(session.weather_data)
  /\ Val(session.weather_data).rows # <<>>
  /\ ~Val(session.weather_data).has_time
  /\ Len(Frames) >= 2

\* The weather table of the call that ran (of the session, or of the
\* fastest lap's session) and the weather snapshots of the frames it gave.
QualiRan == pc = "idle" /\ ~IsNone(arg) /\ "telemetry" \in DOMAIN Val(arg)
WeatherTable == IF QualiRan THEN Val(arg).weather_data ELSE session.weather_data
EmittedFrames ==
  IF QualiRan THEN (IF QualiReturned THEN QualiFrames ELSE <<>>) ELSE Frames
WeatherSnapshots ==
  {EmittedFrames[n].weather :
     n \in {m \in 1..Len(EmittedFrames) : "weather" \in DOMAIN EmittedFrames[m]}}
AbsentColumns == IF IsNone(WeatherTable) THEN {} ELSE WeatherColumns \ Val(WeatherTable).columns

\* The snapshot field of a value column other than Rainfall.
FieldOf ==
  [TrackTemp |-> "track_temp", AirTemp |-> "air_temp", Humidity |-> "humidity",
   WindSpeed |-> "wind_speed", WindDirection |-> "wind_direction"]

\* C24 as stated: a weather column absent from the source gives null in
\* every snapshot and no value derived from it, for track temperature, air
\* temperature, humidity, wind speed, wind direction and rainfall alike; the
\* snapshot's value derived from rainfall is its rain_state.
C24_AbsentColumnsAreNull ==
  \A snapshot \in WeatherSnapshots :
    /\ \A col \in AbsentColumns \ {"Rainfall"} : IsNone(snapshot[FieldOf[col]])
    /\ "Rainfall" \in AbsentColumns => snapshot.rain_state \notin {"RAINING", "DRY"}

\* C24: a column absent from the source, of track temperature, air
\* temperature, humidity, wind speed and wind direction, gives null for its
\* field in every snapshot.  A snapshot holds no rainfall field; with the
\* Rainfall column absent the rainfall is taken as 0 and the rain_state of
\* every snapshot is "DRY".
C24_AbsentColumnsNullRainDry ==
  \A snapshot \in WeatherSnapshots :
    /\ \A col \in AbsentColumns \ {"Rainfall"} : IsNone(snapshot[FieldOf[col]])
    /\ "rainfall" \notin DOMAIN snapshot
    /\ "Rainfall" \in AbsentColumns => snapshot.rain_state = "DRY"

\* Race frames with weather from a table that holds TrackTemp alone: the
\* track temperature is there, the other fields are null, the state is DRY.
C24_Witness ==
  /\ ~QualiRan
  /\ AbsentColumns = WeatherColumns \ {"TrackTemp"}
  /\ Len(Frames) >= 2
  /\ \A n \in 1..Len(Frames) :
       /\ "weather" \in DOMAIN Frames[n]
       /\ ~IsNone(Frames[n].weather.track_temp)
       /\ IsNone(Frames[n].weather.humidity)
       /\ Frames[n].weather.rain_state = "DRY"

SetMax(S) == CHOOSE m \in S : \A e \in S : m >= e
\* The codes of the drivers with data, in the order of session.drivers.
CodesWithData ==
  LET with_data == SelectSeq(session.drivers, HasTelemetry)
  IN [k \in 1..Len(with_data) |-> with_data[k].code]
\* The lap numbers of the drivers with data.
LapNumbersWithData ==
  UNION {{lap.LapNumber : lap \in Range(session.drivers[i].laps)} : i \in WithData}

\* C25: the aggregate is a function of the session alone, whatever the
\* order in which the extraction tasks ran and returned: the drivers with
\* data in session order, the least and the greatest sample time over them,
\* their greatest lap number.  While a task still runs there is no
\* aggregate: the bounds are reduced after the join, by nothing else.
C25_AggregateIsOrderIndependent ==
  /\ (\E i \in 1..Len(results) : IsNone(results[i])) => IsNone(aggregate)
  /\ ~IsNone(aggregate) =>
       LET agg == Val(aggregate) IN
       /\ [k \in 1..Len(agg.driver_data) |-> agg.driver_data[k].code] = CodesWithData
       /\ IF WithData = {}
          THEN /\ IsNone(agg.global_t_min)
               /\ IsNone(agg.global_t_max)
               /\ agg.max_lap_number = 0
          ELSE /\ agg.global_t_min = Some(SetMin(InputTimes))
               /\ agg.global_t_max = Some(SetMax(InputTimes))
               /\ agg.max_lap_number = SetMax(LapNumbersWithData)

\* Several drivers with data were aggregated, and the task returned last
\* in pool.map's list is not the one with the latest sample nor the one with
\* the most laps.
C25_Witness ==
  /\ ~IsNone(aggregate)
  /\ Len(Val(aggregate).driver_data) >= 2
  /\ LET last == Val(results[Len(results)])
     IN /\ ~IsNone(last)
        /\ Val(last).t_max < Val(Val(aggregate).global_t_max)
        /\ Val(last).max_lap < Val(aggregate).max_lap_number

\* The call found a cache hit: no refresh asked for, and under its path an
\* entry that unpickles to a dict that is not empty.
CacheHit ==
  /\ ~argv_refresh
  /\ ~IsNone(FoundEntry)
  /\ Val(FoundEntry).stop
  /\ Val(FoundEntry).items # {}

\* C26: on a cache hit get_race_telemetry returns the cached artifact and
\* does nothing else: it never stands at dispatching, at the pool, at the
\* frames or at the save, no task was handed out, nothing was aggregated or
\* assembled, no save was tried and the cache is as it was.
C26_HitReturnsCachedOnly ==
  CacheHit =>
    /\ pc \in {"start", "done"}
    /\ results = <<>>
    /\ IsNone(aggregate)
    /\ IsNone(result)
    /\ IsNone(history)
    /\ fs.files[RaceCachePath(session)] = FoundEntry
    /\ pc = "done" => ret = Returned(Val(Unpickle(Val(FoundEntry))))

\* The call ended on a hit, in a session with a driver that has data.
C26_Witness ==
  /\ CacheHit
  /\ pc = "done"
  /\ ret = Returned(OldArtifact)
  /\ WithData # {}

\* A failure confined to a driver's segment: the driver has no laps in the
\* segment, or its fastest lap there has no telemetry.
SegmentFails(driver, seg) ==
  \/ driver.segments[seg].laps = "none"
  \/ driver.segments[seg].laps = "ok" /\ driver.segments[seg].telemetry = <<>>

\* C27: in get_quali_telemetry a failure confined to one driver's segment
\* is absorbed.  The driver's task returns with empty frames for that
\* segment and with what get_driver_quali_telemetry gives for every other
\* segment; and once the tasks are handed out get_quali_telemetry raises
\* nothing: it returns its result.
C27_SegmentFailureAbsorbed ==
  /\ \A i \in 1..Len(results) : ~IsNone(results[i]) =>
       \A seg \in Range(SegmentNames) :
         LET given == Val(results[i]).driver_telemetry_data[seg]
             call == Val(GetDriverQualiTelemetry(QualiCall(session, session.drivers[i], seg)))
         IN IF SegmentFails(session.drivers[i], seg) THEN given.frames = <<>>
            ELSE call.kind = "return" => given = call.value
  /\ RetRaised => results = <<>>
  /\ (pc = "q_done" /\ results # <<>>) => ret = Returned(Val(result))

\* The values a frame of get_race_telemetry holds for a driver, should the
\* driver stand at the sample s all through the tick.
HeldAt(s) ==
  [dist |-> s.dist * Scale, lap |-> s.lap, tyre |-> s.tyre * Scale,
   gear |-> s.gear, brake |-> s.brake * Scale]
\* The frame's entry without its position.
Channels(entry) ==
  [dist |-> entry.dist, lap |-> entry.lap, tyre |-> entry.tyre,
   gear |-> entry.gear, brake |-> entry.brake]
\* The time of frame n on the session's clock.
TickTime(n) == SetMin(InputTimes) + Frames[n].t
\* Driver code stands before its first sample, after its last, in frame n.
BeforeFirst(code, n) == TickTime(n) < RaceSeries(code)[1].t
AfterLast(code, n) == TickTime(n) > RaceSeries(code)[Len(RaceSeries(code))].t

\* C28: every frame of get_race_telemetry holds an entry for the same
\* competitors, those whose extraction returned data.  At a tick before a
\* competitor's first sample its entry holds the first sample's values, at
\* a tick after its last sample the last sample's, so K is the same in
\* every frame.
C28_SameCompetitorsInEveryFrame ==
  \A n \in 1..Len(Frames) :
    /\ DOMAIN Frames[n].drivers = Range(CodesWithData)
    /\ Cardinality(DOMAIN Frames[n].drivers) = K
    /\ \A code \in DOMAIN Frames[n].drivers :
         LET series == RaceSeries(code) IN
         /\ BeforeFirst(code, n) => Channels(Frames[n].drivers[code]) = HeldAt(series[1])
         /\ AfterLast(code, n) =>
              Channels(Frames[n].drivers[code]) = HeldAt(series[Len(series)])

\* Of three competitors one has not started at the first tick and another
\* has stopped before the last.
C28_Witness ==
  /\ K = 3
  /\ Len(Frames) >= 2
  /\ \E code \in DOMAIN Frames[1].drivers : BeforeFirst(code, 1)
  /\ \E code \in DOMAIN Frames[Len(Frames)].drivers : AfterLast(code, Len(Frames))

\* The frame times from the first frame to the one before the last grow.
QualiTicksIncrease ==
  QualiReturned =>
    \A i \in 1..(Len(QualiFrames) - 2) : QualiFrames[i].t < QualiFrames[i + 1].t

\* C29: in the frames get_driver_quali_telemetry returns the times t grow
\* strictly from each frame to the next, the last frame included, whose t
\* is replaced by the fastest lap's lap time.
C29_FrameTimesIncrease ==
  QualiReturned =>
    \A i \in 1..(Len(QualiFrames) - 1) : QualiFrames[i].t < QualiFrames[i + 1].t

\* The zones returned, and the tick of the k-th upward crossing.
Zones == Val(out).value.drs_zones
UpTick(k) == CHOOSE u \in UpTicks : Cardinality({v \in UpTicks : v <= u}) = k
DistAt(i) == QualiFrames[i].telemetry.dist

\* C30: the zone list of get_driver_quali_telemetry is well-formed.  There
\* is one zone per upward crossing, in tick order, starting at its tick's
\* distance; only the last zone may be open; a closed zone ends at a tick
\* strictly later than its start and before the next zone starts; and a
\* downward crossing that finds no open zone (DRS at 10 or more from the
\* first tick on) adds no zone and changes none.
C30_ZoneListWellFormed ==
  QualiReturned =>
    /\ Len(Zones) = Cardinality(UpTicks)
    /\ \A k \in 1..Len(Zones) :
         /\ Zones[k].zone_start = DistAt(UpTick(k))
         /\ IsNone(Zones[k].zone_end) => k = Len(Zones)
         /\ ~IsNone(Zones[k].zone_end) =>
              \E d \in DownTicks :
                /\ d > UpTick(k)
                /\ k < Len(Zones) => d < UpTick(k + 1)
                /\ Val(Zones[k].zone_end) = DistAt(d)
    /\ \A d \in DownTicks :
         (\A u \in UpTicks : u > d) =>
           \A k \in 1..Len(Zones) : Zones[k].zone_start > DistAt(d)

\* DRS is open at the first tick and closes (no zone is open then), opens
\* and closes again, and opens a last time: two zones, the second open.
C30_Witness ==
  /\ QualiReturned
  /\ Len(QualiFrames) = 5
  /\ DrsOn(1)
  /\ DownTicks = {2, 4}
  /\ UpTicks = {3, 5}
  /\ Len(Zones) = 2
  /\ ~IsNone(Zones[1].zone_end)
  /\ IsNone(Zones[2].zone_end)

====
